---- MODULE Spec2Model ----
(***************************************************************************)
(* sourcec: the IR code generator (src/src/{lib,env,helper,stmt,expr}.rs)  *)
(* together with an abstract machine that runs the IR it emits.            *)
(*                                                                         *)
(* The generator is a pure function from an ES-tree to a module.  It is    *)
(* written below as operators that thread the builder state `b` (module,   *)
(* insertion block, SSA counter, Result status) the way the Rust code      *)
(* threads context/module/builder.  `?` keeps an Err, `.unwrap()` turns an *)
(* Err or a None into a panic.                                             *)
(***************************************************************************)
EXTENDS Integers, Sequences, FiniteSets, TLC

(***************************************************************************)
(* Bounds of the checked input family.                                     *)
(***************************************************************************)
MaxChain == 3
MaxFact == 2
MaxSteps == 1500

(***************************************************************************)
(* Target and layout constants.                                            *)
(***************************************************************************)
PtrBytes == 4
BOXED_VALUE_SIZE == 16
TAG_UNDEFINED == 0
TAG_BOOLEAN == 1
TAG_NUMBER == 2
TAG_FUNCTION == 3

(***************************************************************************)
(* ES-tree nodes (serde_json::Value objects).  A JSON number or boolean    *)
(* literal value is wrapped so that the two can be told apart.             *)
(***************************************************************************)
JNull == [json |-> "null"]
JBool(v) == [json |-> "bool", b |-> v]
\* a number is an integer n, or n tenths (0.1 .. 0.9)
JNum(v) == [json |-> "number", n |-> v, tenths |-> FALSE]
JTenths(v) == [json |-> "number", n |-> v, tenths |-> TRUE]
JStr(v) == [json |-> "string", s |-> v]

Lit(v) == [type |-> "Literal", value |-> v]
Num(n) == Lit(JNum(n))
Bool(v) == Lit(JBool(v))
Id(n) == [type |-> "Identifier", name |-> n]
Unary(o, a) == [type |-> "UnaryExpression", operator |-> o, argument |-> a]
Binary(o, l, r) == [type |-> "BinaryExpression", operator |-> o, left |-> l, right |-> r]
Logical(o, l, r) == [type |-> "LogicalExpression", operator |-> o, left |-> l, right |-> r]
Cond(t, c, a) == [type |-> "ConditionalExpression", test |-> t, consequent |-> c, alternate |-> a]
Call(f, as) == [type |-> "CallExpression", callee |-> f, arguments |-> as]
ArrowE(ps, e) == [type |-> "ArrowFunctionExpression", expression |-> TRUE, params |-> ps, body |-> e]
Block(ss) == [type |-> "BlockStatement", body |-> ss]
ArrowB(ps, ss) == [type |-> "ArrowFunctionExpression", expression |-> FALSE, params |-> ps, body |-> Block(ss)]
VarDecl(n, e) == [type |-> "VariableDeclaration", declarations |-> <<[id |-> Id(n), init |-> e]>>]
FnDecl(n, ps, ss) == [type |-> "FunctionDeclaration", id |-> Id(n), params |-> ps, body |-> Block(ss)]
ExprStmt(e) == [type |-> "ExpressionStatement", expression |-> e]
If(t, c, a) == [type |-> "IfStatement", test |-> t, consequent |-> c, alternate |-> a]
IfNoElse(t, c) == [type |-> "IfStatement", test |-> t, consequent |-> c]
Return(e) == [type |-> "ReturnStatement", argument |-> e]
Program(ss) == [type |-> "Program", body |-> ss]

(***************************************************************************)
(* IR operands and run-time values share one record shape.                 *)
(*   reg   SSA value n            param  n-th parameter of the function    *)
(*   int   integer n (i1/i32/i64, two's complement value)                  *)
(*   fbits i64 holding the bits of the double (s, n); f64 the double       *)
(*   ptr   address: object n, byte offset o (object 0 is null)             *)
(*   fn    address of function n; str a global string; uninit garbage      *)
(***************************************************************************)
V(k, n, o, s) == [k |-> k, n |-> n, o |-> o, s |-> s]
Reg(n) == V("reg", n, 0, "")
Param(n) == V("param", n, 0, "")
IntC(n) == V("int", n, 0, "")
FnC(n) == V("fn", n, 0, "")
StrC(s) == V("str", 0, 0, s)
NullPtr == V("ptr", 0, 0, "")
Ptr(obj, off) == V("ptr", obj, off, "")
Uninit == V("uninit", 0, 0, "")
F64(n) == V("f64", n, 0, "fin")
\* const_float(value) bit-cast to i64 is folded by the builder
FBits(x) == IF x.s = "fin" /\ x.n = 0 THEN IntC(0) ELSE V("fbits", x.n, 0, x.s)
\* serde_json's Number::as_f64
as_f64(value) == IF value.tenths THEN V("f64", value.n, 0, "tenths") ELSE F64(value.n)

Ins(op, dst, args, ty, idx, tgt) ==
  [op |-> op, dst |-> dst, args |-> args, ty |-> ty, idx |-> idx, tgt |-> tgt]

(***************************************************************************)
(* env.rs                                                                  *)
(***************************************************************************)
Env_new(parent) == [names |-> <<>>, parent |-> parent, ptr |-> <<>>, counter |-> 0]

add_name(env, name) ==
  [env EXCEPT !.counter = @ + 1,
              !.names = (name :> (env.counter + 1)) @@ env.names]

\* a lookup that loses the number of frames it went up
Found_without_jumps(jumps, offset) == [status |-> "ok", jumps |-> 0, offset |-> offset]
Found(jumps, offset) == [status |-> "ok", jumps |-> jumps, offset |-> offset]
NotFound(status) == [status |-> status, jumps |-> 0, offset |-> 0]

RECURSIVE lookup_outermost(_, _, _)
\* a search that prefers the outermost declaration
lookup_outermost(frame, name, jumps) ==
  IF frame.parent # <<>> /\ lookup_outermost(frame.parent[1], name, jumps + 1).status = "ok"
  THEN lookup_outermost(frame.parent[1], name, jumps + 1)
  ELSE IF name \in DOMAIN frame.names THEN Found(jumps, frame.names[name])
  ELSE NotFound("err")

RECURSIVE lookup_loop(_, _, _)
lookup_loop(frame, name, jumps) ==
  IF name \in DOMAIN frame.names THEN Found(jumps, frame.names[name])
  ELSE IF frame.parent # <<>> THEN lookup_loop(frame.parent[1], name, jumps + 1)
  ELSE NotFound("err")

lookup(env, name) ==
  IF name \in DOMAIN env.names THEN Found(0, env.names[name])
  ELSE IF env.parent = <<>> THEN NotFound("panic")
  ELSE lookup_loop(env.parent[1], name, 1)

IsDecl(es_node) == es_node.type \in {"VariableDeclaration", "FunctionDeclaration"}

DeclName(es_node) ==
  IF es_node.type = "VariableDeclaration" THEN es_node.declarations[1].id.name
  ELSE es_node.id.name

\* a pre-pass that counts the declarations without giving them slots
count_decls_only(env, body) ==
  [env |-> env, count |-> Cardinality({i \in 1..Len(body) : IsDecl(body[i])})]

RECURSIVE add_and_count_decls(_, _)
add_and_count_decls(env, body) ==
  IF body = <<>> THEN [env |-> env, count |-> 0]
  ELSE LET rest == add_and_count_decls(
                     IF IsDecl(Head(body)) THEN add_name(env, DeclName(Head(body))) ELSE env,
                     Tail(body))
       IN [env |-> rest.env,
           count |-> rest.count + (IF IsDecl(Head(body)) THEN 1 ELSE 0)]

(***************************************************************************)
(* The IR builder (inkwell Context/Module/Builder as the generator uses    *)
(* them).  A module is a sequence of functions, a function a sequence of   *)
(* basic blocks, a block a sequence of instructions.  `cur` is the block   *)
(* the builder appends to.  `loc` holds the local variables of the Rust    *)
(* function being executed: the values and blocks its builder calls have   *)
(* returned so far, by name.                                               *)
(***************************************************************************)
NewBuilder ==
  [funs |-> <<>>, cur |-> <<0, 0>>, nreg |-> 0, status |-> "ok", val |-> Uninit,
   some |-> FALSE, loc |-> <<>>, log |-> <<>>]

Fail(b, status) == [b EXCEPT !.status = status]

\* `log` is a history of the lowering (it is not part of the Rust state): the
\* environments created, the statements lowered, the identifier reads and the
\* closure literals, in the order the generator works through them
LogEv(b, e) == [b EXCEPT !.log = Append(@, e)]
\* kinds: the types of the statements of the scope's list; p: the number of
\* parameters of a function scope
\* the names add_name was called with for a scope, in call order
Added(params, body) ==
  [i \in 1..Len(params) |-> params[i].name]
  \o [i \in 1..Len(SelectSeq(body, IsDecl)) |-> DeclName(SelectSeq(body, IsDecl)[i])]
EnvEv(env, site, body, params) ==
  [ev |-> "env", ptr |-> env.ptr[1].n, site |-> site.n,
   parent |-> IF env.parent = <<>> THEN 0 ELSE env.parent[1].ptr[1].n,
   names |-> DOMAIN env.names, slots |-> env.names,
   kinds |-> [i \in 1..Len(body) |-> body[i].type], p |-> Len(params),
   added |-> Added(params, body)]
DeclNames(body) == {DeclName(body[i]) : i \in {j \in 1..Len(body) : IsDecl(body[j])}}
StmtEv(env, body, i) ==
  [ev |-> "stmt", env |-> env.ptr[1].n, i |-> i, decls |-> DeclNames(body),
   type |-> body[i].type, of |-> Len(body), top |-> env.parent = <<>>]
DoneEv(env, i, b) ==
  [ev |-> "done", env |-> env.ptr[1].n, i |-> i, some |-> b.some, val |-> b.val,
   nreg |-> b.nreg]
RECURSIVE Declaring(_, _)
Declaring(env, name) ==
  IF name \in DOMAIN env.names \/ env.parent = <<>> THEN env
  ELSE Declaring(env.parent[1], name)
ReadEv(env, name, lk, load) ==
  [ev |-> "read", name |-> name, load |-> load.n, jumps |-> lk.jumps,
   slot |-> lk.offset, cur |-> env.ptr[1].n, env |-> Declaring(env, name).ptr[1].n]
LookupEv(env, name, lk) ==
  [ev |-> "lookup", name |-> name, status |-> lk.status, top |-> env.parent = <<>>]
ClosureEv(site, parent, fun) ==
  [ev |-> "closure", site |-> site.n, env |-> parent.ptr[1].n, fn |-> fun]
\* the lowering of the function literal `fun` starts with the cursor at cur
FnStartEv(cur, fun) == [ev |-> "fn_start", cur |-> cur, fn |-> fun]
\* .. and ends with the cursor at cur and the value val
FnEndEv(b, parent, fun) ==
  [ev |-> "fn_end", cur |-> b.cur, fn |-> fun, val |-> b.val, mem |-> b.loc["mem"].n,
   frame |-> parent.ptr[1]]
\* an operator expression: the operands' boxes, the registers of their tags,
\* the operator's result, and the blocks of its type check
OperatorEv(operator, b) ==
  [ev |-> "operator", operator |-> operator, fn |-> b.cur[1],
   left |-> b.loc["left"], right |-> b.loc["right"],
   left_type |-> b.loc["left_type"].n, right_type |-> b.loc["right_type"].n,
   result |-> b.loc["result"].n, box |-> b.loc["obj_ptr"].n,
   error |-> b.loc["error"], valid |-> b.loc["valid"]]
\* a call through a closure: the registers of the callee's tag, of the code
\* and frame read from the closure, the call, and the blocks of the check
CallEv(b) ==
  [ev |-> "call", fn |-> b.cur[1], callee |-> b.loc["callee"],
   lit_type_value |-> b.loc["lit_type_value"].n,
   function_obj |-> b.loc["function_obj"].n, fun_env |-> b.loc["fun_env"].n,
   function_ptr |-> b.loc["function_ptr"].n, fun_env_ptr |-> b.loc["fun_env_ptr"].n,
   call |-> b.loc["call"].n, error |-> b.loc["error"], next |-> b.loc["next"]]
\* a call of display: the call instruction and the box it yields
DisplayEv(b) ==
  [ev |-> "display", fn |-> b.cur[1], blk |-> b.cur[2], call |-> b.loc[""].n,
   mem |-> b.loc["mem"].n, val |-> b.val]
\* a unary expression: its operand's box, the registers of the operand's tag
\* and payload, of the result, the new box and the blocks of the type check
UnaryEv(operator, b) ==
  [ev |-> "unary", operator |-> operator, fn |-> b.cur[1], argument |-> b.loc["argument"],
   obj_type |-> b.loc["obj_type"].n, obj_value |-> b.loc["obj_value"].n,
   result |-> b.loc["result"].n, mem |-> b.loc["mem"].n, box |-> b.loc["obj_ptr"].n,
   error |-> b.loc["error"], valid |-> b.loc["valid"]]
\* the test of an if statement or of a ternary expression: the test's box,
\* the registers of its payload and of the truncated payload, and the arms
TestEv(b) ==
  [ev |-> "test", fn |-> b.cur[1], test |-> b.loc["test"], value |-> b.loc["value"].n,
   as_i1 |-> b.loc["as_i1"].n, consequent_block |-> b.loc["consequent_block"],
   alternate_block |-> b.loc["alternate_block"], end_block |-> b.loc["end_block"]]
\* an expression: its kind, its value, and the SSA values its code defines,
\* first + 1 .. last
ExprEv(type, first, b) ==
  [ev |-> "expr", type |-> type, fn |-> b.cur[1], val |-> b.val, first |-> first,
   last |-> b.nreg]
\* a successful lookup of `name` from the environment env
ResolvedEv(env, name, lk) ==
  [ev |-> "resolved", name |-> name, jumps |-> lk.jumps, slot |-> lk.offset,
   cur |-> env.ptr[1].n]
\* an if statement has been lowered
IfEv(b) ==
  [ev |-> "if", cur |-> b.cur, consequent_block |-> b.loc["consequent_block"],
   alternate_block |-> b.loc["alternate_block"], end_block |-> b.loc["end_block"]]
unwrap(b) == IF b.status = "err" THEN Fail(b, "panic") ELSE b

add_function(b, name, ret) ==
  [b EXCEPT !.funs = Append(@, [name |-> name, ret |-> ret, blocks |-> <<>>])]
\* the function the next add_function creates
NextFn(b) == Len(b.funs) + 1
get_function(b, name) == CHOOSE i \in 1..Len(b.funs) : b.funs[i].name = name

IsTerminator(ins) == ins.op \in {"ret", "br", "condbr", "switch"}
get_terminator(blk) ==
  IF blk.instrs # <<>> /\ IsTerminator(blk.instrs[Len(blk.instrs)])
  THEN <<blk.instrs[Len(blk.instrs)]>> ELSE <<>>
InsertBlock(b) == b.funs[b.cur[1]].blocks[b.cur[2]]

\* One builder call, as the generator writes it: `name` is the local variable
\* that receives the result; an argument is a value, R(x) for the local
\* variable x, or F(f) for module.get_function(f); a target is the local
\* variable of a block.
R(name) == V("ref", 0, 0, name)
F(name) == V("fnref", 0, 0, name)
Step(op, name, args, ty, idx, tgt) ==
  [op |-> op, name |-> name, args |-> args, ty |-> ty, idx |-> idx, tgt |-> tgt]

append_basic_block(name, function, label) ==
  Step("block", name, <<>>, label, <<function>>, <<>>)
position_at_end(function, blk) == Step("position", "", <<>>, "", <<function>>, <<blk>>)
get_insert_block(name) == Step("insert_block", name, <<>>, "", <<>>, <<>>)
build_bitcast(name, v, ty) == Step("bitcast", name, <<v>>, ty, <<>>, <<>>)
build_in_bounds_gep(name, base, ty, idx) == Step("gep", name, <<base>>, ty, idx, <<>>)
build_load(name, ptr, ty) == Step("load", name, <<ptr>>, ty, <<>>, <<>>)
build_store(ptr, v) == Step("store", "", <<ptr, v>>, "", <<>>, <<>>)
build_call(name, callee, args) == Step("call", name, <<callee>> \o args, "", <<>>, <<>>)
build_unconditional_branch(blk) == Step("br", "", <<>>, "", <<>>, <<blk>>)
build_conditional_branch(c, t, f) == Step("condbr", "", <<c>>, "", <<>>, <<t, f>>)
build_switch(v, else_block, cases, blocks) ==
  Step("switch", "", <<v>>, "", cases, <<else_block>> \o blocks)
build_return(vs, ty) == Step("ret", "", vs, ty, <<>>, <<>>)
build_int_compare(name, l, r) == Step("icmp", name, <<l, r>>, "EQ", <<>>, <<>>)
build_phi(name, vs, blocks) == Step("phi", name, vs, "ptr", <<>>, blocks)
build_op(name, op, args, ty) == Step(op, name, args, ty, <<>>, <<>>)

Resolve(b, x) ==
  CASE x.k = "ref" -> b.loc[x.s]
    [] x.k = "fnref" -> FnC(get_function(b, x.s))
    [] OTHER -> x
Bind(b, name, v) == [b EXCEPT !.loc = (name :> v) @@ @]
Emit(b, ins) ==
  [b EXCEPT !.funs[b.cur[1]].blocks[b.cur[2]].instrs = Append(@, ins)]
\* an instruction with a result: the next SSA value
EmitV(b, ins) ==
  [Emit(b, [ins EXCEPT !.dst = b.nreg + 1])
     EXCEPT !.nreg = b.nreg + 1, !.val = Reg(b.nreg + 1)]
StepIns(b, s) ==
  Ins(s.op, 0, [i \in 1..Len(s.args) |-> Resolve(b, s.args[i])], s.ty, s.idx,
      [i \in 1..Len(s.tgt) |-> b.loc[s.tgt[i]]])

exec_step(b, s) ==
  CASE s.op = "block" ->
         Bind([b EXCEPT !.funs[s.idx[1]].blocks = Append(@, [label |-> s.ty, instrs |-> <<>>])],
              s.name, Len(b.funs[s.idx[1]].blocks) + 1)
    [] s.op = "position" -> [b EXCEPT !.cur = <<s.idx[1], b.loc[s.tgt[1]]>>]
    [] s.op = "insert_block" -> Bind(b, s.name, b.cur[2])
    [] s.op \in {"store", "br", "condbr", "ret", "switch"} -> Emit(b, StepIns(b, s))
    [] OTHER -> Bind(EmitV(b, StepIns(b, s)), s.name, Reg(b.nreg + 1))

\* the builder calls steps[lo..hi] of a straight-line piece of a function, in
\* order: the first half, then the second half
RECURSIVE run(_, _, _, _)
run_rest(n, steps, lo, hi) == IF n.status # "ok" THEN n ELSE run(n, steps, lo, hi)
run(b, steps, lo, hi) ==
  IF lo > hi THEN b
  ELSE IF lo = hi THEN exec_step(b, steps[lo])
  ELSE run_rest(run(b, steps, lo, (lo + hi) \div 2), steps, (lo + hi) \div 2 + 1, hi)
\* .. run with the local variables loc
Run(b, loc, steps) == run([b EXCEPT !.loc = loc], steps, 1, Len(steps))
\* Ok(x): the local variable x is the result
Ret(b, name) == [b EXCEPT !.val = b.loc[name]]
Do(b, loc, steps, name) == Ret(Run(b, loc, steps), name)

(***************************************************************************)
(* helper.rs                                                               *)
(***************************************************************************)
malloc(name, size) == build_call(name, F("malloc"), <<IntC(size)>>)

\* an allocation without the slot of the static link
allocate_env_steps_without_link(count, parent) ==
  <<malloc("addr", count * 8),
    build_bitcast("env_value", R("addr"), "ptr")>>
  \o (IF parent # <<>>
      THEN <<build_bitcast("frame_ptr", R("env_value"), "ptr"),
             build_store(R("frame_ptr"), parent[1].ptr[1])>>
      ELSE <<>>)
\* a null static link is stored into a frame without a parent
allocate_env_steps_null_link(count, parent) ==
  <<malloc("addr", (count + 1) * 8),
    build_bitcast("env_value", R("addr"), "ptr"),
    build_bitcast("frame_ptr", R("env_value"), "ptr"),
    build_store(R("frame_ptr"), IF parent # <<>> THEN parent[1].ptr[1] ELSE NullPtr)>>
allocate_env_steps(count, parent) ==
  <<malloc("addr", (count + 1) * 8),
    build_bitcast("env_value", R("addr"), "ptr")>>
  \o (IF parent # <<>>
      THEN <<build_bitcast("frame_ptr", R("env_value"), "ptr"),
             build_store(R("frame_ptr"), parent[1].ptr[1])>>
      ELSE <<>>)

\* the environment and the builder after its allocation
allocate_env(body, parent, b) ==
  LET dc == add_and_count_decls(Env_new(parent), body)
      r == Run(b, <<>>, allocate_env_steps(dc.count, parent))
      env == [dc.env EXCEPT !.ptr = <<r.loc["env_value"]>>]
  IN [b |-> LogEv(r, EnvEv(env, r.loc["addr"], body, <<>>)), env |-> env]

build_literal(obj_type, obj_value) ==
  <<malloc("mem", BOXED_VALUE_SIZE),
    build_bitcast("obj_ptr", R("mem"), "ptr"),
    build_in_bounds_gep("type_ptr", R("obj_ptr"), "source_obj", <<0, 0>>),
    build_in_bounds_gep("value_ptr", R("obj_ptr"), "source_obj", <<0, 1>>),
    build_store(R("type_ptr"), obj_type),
    build_store(R("value_ptr"), obj_value)>>

build_undefined == build_literal(IntC(TAG_UNDEFINED), IntC(0))
build_boolean(value) == build_literal(IntC(TAG_BOOLEAN), IntC(IF value THEN 1 ELSE 0))
build_number(value) == build_literal(IntC(TAG_NUMBER), FBits(value))

(***************************************************************************)
(* lib.rs: setup emits the runtime helpers display and error.              *)
(***************************************************************************)
setup_display(b, display_fn) ==
  Run(add_function(b, "display", "void"), <<>>,
    <<append_basic_block("entry", display_fn, "entry"),
      position_at_end(display_fn, "entry"),
      append_basic_block("undefined_block", display_fn, "undefined"),
      append_basic_block("boolean_block", display_fn, "boolean"),
      append_basic_block("true_block", display_fn, "true"),
      append_basic_block("false_block", display_fn, "false"),
      append_basic_block("number_block", display_fn, "number"),
      append_basic_block("function_block", display_fn, "function"),
      append_basic_block("end_block", display_fn, "end"),
      build_in_bounds_gep("obj_type_ptr", Param(0), "source_obj", <<0, 0>>),
      build_load("obj_type", R("obj_type_ptr"), "i64"),
      build_in_bounds_gep("obj_value_ptr", Param(0), "source_obj", <<0, 1>>),
      build_load("obj_value", R("obj_value_ptr"), "i64"),
      build_switch(R("obj_type"), "undefined_block",
                   <<TAG_BOOLEAN, TAG_NUMBER, TAG_FUNCTION>>,
                   <<"boolean_block", "number_block", "function_block">>),
      position_at_end(display_fn, "undefined_block"),
      build_call("", F("printf"), <<StrC("undefined\n")>>),
      build_unconditional_branch("end_block"),
      position_at_end(display_fn, "boolean_block"),
      build_op("bool_value", "trunc", <<R("obj_value")>>, "i1"),
      build_conditional_branch(R("bool_value"), "true_block", "false_block"),
      position_at_end(display_fn, "true_block"),
      build_call("", F("printf"), <<StrC("true\n")>>),
      build_unconditional_branch("end_block"),
      position_at_end(display_fn, "false_block"),
      build_call("", F("printf"), <<StrC("false\n")>>),
      build_unconditional_branch("end_block"),
      position_at_end(display_fn, "number_block"),
      build_bitcast("number_value", R("obj_value"), "f64"),
      build_call("", F("printf"), <<StrC("%lf\n"), R("number_value")>>),
      build_unconditional_branch("end_block"),
      position_at_end(display_fn, "function_block"),
      build_call("", F("printf"), <<StrC("Function\n")>>),
      build_unconditional_branch("end_block"),
      position_at_end(display_fn, "end_block"),
      build_return(<<>>, "void")>>)

setup_error(b, error_fn) ==
  Run(add_function(b, "error", "void"), <<>>,
    <<append_basic_block("entry", error_fn, "entry"),
      position_at_end(error_fn, "entry"),
      build_call("", F("printf"), <<StrC("Type mismatch\n")>>),
      build_call("", F("exit"), <<IntC(1)>>),
      build_return(<<>>, "void")>>)

setup_helpers(b) == setup_error(setup_display(b, NextFn(b)), NextFn(b) + 1)
setup(b) ==
  setup_helpers(
    add_function(add_function(add_function(b, "printf", "i32"), "malloc", "ptr"),
                 "exit", "void"))

(***************************************************************************)
(* expr.rs                                                                 *)
(* A function that lowers sub-expressions is written as its pieces between *)
(* the recursive calls: each piece receives the builder the recursive call *)
(* returned (its `?` is the status test at the head of the piece) and the  *)
(* local variables set so far.                                             *)
(***************************************************************************)
RECURSIVE compile_expr(_, _, _, _)
RECURSIVE compile_stmt(_, _, _, _)
RECURSIVE compile_block_stmt(_, _, _, _)
RECURSIVE compile_fn_expr(_, _, _, _, _)

\* the static-link chase: `jumps` loads through slot 0 (also stmt.rs 76-81, 239-244)
RECURSIVE chase(_)
chase(jumps) ==
  IF jumps = 0 THEN <<>>
  ELSE <<build_bitcast("tmp", R("frame"), "ptr"),
         build_load("frame", R("tmp"), "ptr")>> \o chase(jumps - 1)

\* the cell of (jumps, offset) seen from `frame` (also stmt.rs 83-93, 246-256)
cell(jumps, offset) ==
  chase(jumps)
  \o <<build_bitcast("frame_casted", R("frame"), "ptr"),
       build_in_bounds_gep("ptr", R("frame_casted"), "ptrs", <<offset>>)>>

id_load(es_node, env, lk, r) ==
  LogEv(LogEv(Ret(r, "load"), ReadEv(env, es_node.name, lk, r.loc["load"])),
        ResolvedEv(env, es_node.name, lk))
id_found(es_node, env, b, lk) ==
  IF lk.status # "ok" THEN LogEv(Fail(b, lk.status), LookupEv(env, es_node.name, lk))
  ELSE id_load(es_node, env, lk,
               Run(b, [frame |-> env.ptr[1]],
                   cell(lk.jumps, lk.offset) \o <<build_load("load", R("ptr"), "ptr")>>))
compile_id_expr(es_node, env, b) == id_found(es_node, env, b, lookup(env, es_node.name))

\* the error/valid diamond of a unary operator
unary_check(function, obj_type, tag) ==
  <<append_basic_block("error", function, "rt.tc.error"),
    append_basic_block("valid", function, "rt.tc.valid"),
    build_int_compare("cmp", obj_type, IntC(tag)),
    build_conditional_branch(R("cmp"), "valid", "error"),
    position_at_end(function, "error"),
    build_call("", F("error"), <<>>),
    build_unconditional_branch("valid"),
    position_at_end(function, "valid")>>

unary_loads ==
  <<build_in_bounds_gep("obj_type_ptr", R("argument"), "source_obj", <<0, 0>>),
    build_in_bounds_gep("obj_value_ptr", R("argument"), "source_obj", <<0, 1>>),
    build_load("obj_type", R("obj_type_ptr"), "i64"),
    build_load("obj_value", R("obj_value_ptr"), "i64")>>

unary_operator(es_node, a, function) ==
  IF a.status # "ok" THEN a
  ELSE
  CASE es_node.operator = "!" ->
         Do(a, [argument |-> a.val],
            unary_loads
            \o unary_check(function, R("obj_type"), TAG_BOOLEAN)
            \o <<build_op("result", "not", <<R("obj_value")>>, "i64")>>
            \o build_literal(R("obj_type"), R("result")), "obj_ptr")
    [] es_node.operator = "-" ->
         Do(a, [argument |-> a.val],
            unary_loads
            \o unary_check(function, R("obj_type"), TAG_NUMBER)
            \o <<build_bitcast("as_float", R("obj_value"), "f64"),
                 build_op("neg", "fneg", <<R("as_float")>>, "f64"),
                 build_bitcast("result", R("neg"), "i64")>>
            \o build_literal(R("obj_type"), R("result")), "obj_ptr")
    [] OTHER -> Fail(Run(a, [argument |-> a.val], unary_loads), "err")
unary_done(operator, x) == IF x.status # "ok" THEN x ELSE LogEv(x, UnaryEv(operator, x))
compile_unary_expr(es_node, env, b, function) ==
  unary_done(es_node.operator,
             unary_operator(es_node, compile_expr(es_node.argument, env, b, function),
                            function))

\* a check that compares the left tag twice
typecheck_left_twice(expected_left_type, expected_right_type, actual_left_type, actual_right_type, function) ==
  <<append_basic_block("next", function, "rt.tc.next"),
    append_basic_block("error", function, "rt.tc.error"),
    append_basic_block("valid", function, "rt.tc.valid"),
    build_int_compare("left_ok", expected_left_type, actual_left_type),
    build_conditional_branch(R("left_ok"), "next", "error"),
    position_at_end(function, "next"),
    build_int_compare("right_ok", expected_right_type, actual_left_type),
    build_conditional_branch(R("right_ok"), "valid", "error"),
    position_at_end(function, "error"),
    build_call("", F("error"), <<>>),
    build_unconditional_branch("valid"),
    position_at_end(function, "valid")>>
typecheck(expected_left_type, expected_right_type, actual_left_type, actual_right_type, function) ==
  <<append_basic_block("next", function, "rt.tc.next"),
    append_basic_block("error", function, "rt.tc.error"),
    append_basic_block("valid", function, "rt.tc.valid"),
    build_int_compare("left_ok", expected_left_type, actual_left_type),
    build_conditional_branch(R("left_ok"), "next", "error"),
    position_at_end(function, "next"),
    build_int_compare("right_ok", expected_right_type, actual_right_type),
    build_conditional_branch(R("right_ok"), "valid", "error"),
    position_at_end(function, "error"),
    build_call("", F("error"), <<>>),
    build_unconditional_branch("valid"),
    position_at_end(function, "valid")>>

\* an operator table with + and - exchanged
ArithOps_exchanged == [p \in {"+", "-", "*", "/", "%"} |->
                         CASE p = "+" -> "fsub" [] p = "-" -> "fadd" [] p = "*" -> "fmul"
                           [] p = "/" -> "fdiv" [] p = "%" -> "frem"]
ArithOps == [p \in {"+", "-", "*", "/", "%"} |->
               CASE p = "+" -> "fadd" [] p = "-" -> "fsub" [] p = "*" -> "fmul"
                 [] p = "/" -> "fdiv" [] p = "%" -> "frem"]
CompareOps == [p \in {"<", ">", "===", "!==", "<=", ">="} |->
                 CASE p = "<" -> "OLT" [] p = ">" -> "OGT" [] p = "===" -> "OEQ"
                   [] p = "!==" -> "ONE" [] p = "<=" -> "OLE" [] p = ">=" -> "OGE"]
LogicOps == [p \in {"&&", "||"} |-> IF p = "&&" THEN "and" ELSE "or"]

binary_loads ==
  <<build_in_bounds_gep("left_value_ptr", R("left"), "source_obj", <<0, 1>>),
    build_load("left_value", R("left_value_ptr"), "i64"),
    build_in_bounds_gep("right_value_ptr", R("right"), "source_obj", <<0, 1>>),
    build_load("right_value", R("right_value_ptr"), "i64"),
    build_in_bounds_gep("left_type_ptr", R("left"), "source_obj", <<0, 0>>),
    build_load("left_type", R("left_type_ptr"), "i64"),
    build_in_bounds_gep("right_type_ptr", R("right"), "source_obj", <<0, 0>>),
    build_load("right_type", R("right_type_ptr"), "i64")>>
as_floats ==
  <<build_bitcast("left_float", R("left_value"), "f64"),
    build_bitcast("right_float", R("right_value"), "f64")>>
number_type == IntC(TAG_NUMBER)
boolean_type == IntC(TAG_BOOLEAN)

binary_operator(operator, left, r, function) ==
  IF r.status # "ok" THEN r
  ELSE
  CASE operator \in DOMAIN ArithOps ->
         Do(r, [left |-> left, right |-> r.val],
            binary_loads
            \o typecheck(number_type, number_type, R("left_type"), R("right_type"), function)
            \o as_floats
            \o <<build_op("float_result", ArithOps[operator],
                          <<R("left_float"), R("right_float")>>, "f64"),
                 build_bitcast("result", R("float_result"), "i64")>>
            \o build_literal(number_type, R("result")), "obj_ptr")
    [] operator \in DOMAIN CompareOps ->
         Do(r, [left |-> left, right |-> r.val],
            binary_loads
            \o typecheck(number_type, number_type, R("left_type"), R("right_type"), function)
            \o as_floats
            \o <<build_op("compared", "fcmp", <<R("left_float"), R("right_float")>>,
                          CompareOps[operator]),
                 build_op("result", "intcast", <<R("compared")>>, "i64")>>
            \o build_literal(boolean_type, R("result")), "obj_ptr")
    [] operator \in DOMAIN LogicOps ->
         Do(r, [left |-> left, right |-> r.val],
            binary_loads
            \o typecheck(boolean_type, boolean_type, R("left_type"), R("right_type"), function)
            \o <<build_op("result", LogicOps[operator],
                          <<R("left_value"), R("right_value")>>, "i64")>>
            \o build_literal(boolean_type, R("result")), "obj_ptr")
    [] OTHER -> Fail(Run(r, [left |-> left, right |-> r.val], binary_loads), "err")
binary_done(operator, x) ==
  IF x.status # "ok" THEN x ELSE LogEv(x, OperatorEv(operator, x))
binary_right(es_node, env, l, function) ==
  IF l.status # "ok" THEN l
  ELSE binary_done(es_node.operator,
                   binary_operator(es_node.operator, l.val,
                                   compile_expr(es_node.right, env, l, function), function))
\* a generator that compiles the right operand before the left one
binary_left_last(es_node, right, l, function) ==
  IF l.status # "ok" THEN l
  ELSE binary_done(es_node.operator,
                   binary_operator(es_node.operator, l.val, [l EXCEPT !.val = right],
                                   function))
binary_right_first(es_node, env, r, function) ==
  IF r.status # "ok" THEN r
  ELSE binary_left_last(es_node, r.val, compile_expr(es_node.left, env, r, function),
                        function)
compile_binary_expr_right_first(es_node, env, b, function) ==
  binary_right_first(es_node, env, compile_expr(es_node.right, env, b, function), function)
compile_binary_expr(es_node, env, b, function) ==
  binary_right(es_node, env, compile_expr(es_node.left, env, b, function), function)

compile_literal_expr(es_node, b) ==
  CASE es_node.value.json = "bool" -> Do(b, <<>>, build_boolean(es_node.value.b), "obj_ptr")
    [] es_node.value.json = "number" -> Do(b, <<>>, build_number(as_f64(es_node.value)), "obj_ptr")
    [] OTHER -> Fail(b, "err")

\* arguments.iter().map(|arg| compile_expr(arg, ..).unwrap()).collect()
RECURSIVE compile_args(_, _, _, _, _)
args_collect(args, env, a, function, acc) ==
  IF a.status # "ok" THEN [b |-> a, params |-> acc]
  ELSE compile_args(Tail(args), env, a, function, Append(acc, a.val))
compile_args(args, env, b, function, acc) ==
  IF args = <<>> THEN [b |-> b, params |-> acc]
  ELSE args_collect(args, env, unwrap(compile_expr(Head(args), env, b, function)),
                    function, acc)

RECURSIVE store_params(_, _)
store_params(params, i) ==
  IF i >= Len(params) THEN <<>>
  ELSE <<build_in_bounds_gep("param_ptr", R("addr"), "ptrs", <<i>>),
         build_store(R("param_ptr"), params[i + 1])>> \o store_params(params, i + 1)

\* a check with the branch targets exchanged
callee_typecheck_exchanged(function) ==
  <<append_basic_block("error", function, "error"),
    append_basic_block("next", function, "next"),
    build_int_compare("is_fn", R("lit_type_value"), IntC(TAG_FUNCTION)),
    build_conditional_branch(R("is_fn"), "error", "next"),
    position_at_end(function, "error"),
    build_call("", F("error"), <<>>),
    build_unconditional_branch("next"),
    position_at_end(function, "next")>>
\* typecheck
callee_typecheck(function) ==
  <<append_basic_block("error", function, "error"),
    append_basic_block("next", function, "next"),
    build_int_compare("is_fn", R("lit_type_value"), IntC(TAG_FUNCTION)),
    build_conditional_branch(R("is_fn"), "next", "error"),
    position_at_end(function, "error"),
    build_call("", F("error"), <<>>),
    build_unconditional_branch("next"),
    position_at_end(function, "next")>>
call_done(x) == IF x.status # "ok" THEN x ELSE LogEv(x, CallEv(x))
\* the arguments array of a call and the values of the argument expressions
ArgsEv(b, params) ==
  [ev |-> "args", fn |-> b.cur[1], call |-> b.loc["call"].n, array |-> b.loc["params"].n,
   params |-> params]
args_done(params, x) == IF x.status # "ok" THEN x ELSE LogEv(x, ArgsEv(x, params))
call_closure(params, c, function) ==
  IF c.status # "ok" THEN c
  ELSE args_done(params, call_done(Do(c, [callee |-> c.val],
          <<build_in_bounds_gep("lit_type", R("callee"), "source_obj", <<0, 0>>),
            build_load("lit_type_value", R("lit_type"), "i64")>>
          \o callee_typecheck(function)
          \o <<build_bitcast("function_lit", R("callee"), "ptr"),
            build_in_bounds_gep("function_ptr", R("function_lit"), "closure", <<0, 2>>),
            build_load("function_obj", R("function_ptr"), "ptr"),
            build_in_bounds_gep("fun_env_ptr", R("function_lit"), "closure", <<0, 1>>),
            build_load("fun_env", R("fun_env_ptr"), "ptr"),
            \* boxed_params
            malloc("params", Len(params) * 8),
            build_bitcast("addr", R("params"), "ptr")>>
          \o store_params(params, 0)
          \o <<build_bitcast("boxed_params", R("addr"), "ptr"),
               build_call("call", R("function_obj"), <<R("fun_env"), R("boxed_params")>>)>>,
          "call")))
\* a generator without the fast path
callee_is_display_never(es_node) == FALSE
callee_is_display(es_node) ==
  es_node.callee.type = "Identifier" /\ es_node.callee.name = "display"
display_done(x) == IF x.status # "ok" THEN x ELSE LogEv(x, DisplayEv(x))
call_callee(es_node, env, ca, function) ==
  IF ca.b.status # "ok" THEN ca.b
  ELSE IF callee_is_display(es_node)
  THEN display_done(Do(ca.b, <<>>,
                       <<build_call("", F("display"), ca.params)>> \o build_undefined,
                       "obj_ptr"))
  ELSE call_closure(ca.params, compile_expr(es_node.callee, env, ca.b, function), function)
compile_call_expr(es_node, env, b, function) ==
  call_callee(es_node, env, compile_args(es_node.arguments, env, b, function, <<>>),
              function)

\* a ternary whose value is the consequent's
ternary_end_consequent(loc, a, function) ==
  IF a.status # "ok" THEN a
  ELSE Do(a, [alternate |-> a.val] @@ loc,
          <<get_insert_block("alt_end"),
            build_unconditional_branch("end_block"),
            position_at_end(function, "end_block"),
            build_phi("phi", <<R("consequent"), R("alternate")>>, <<"con_end", "alt_end">>)>>,
          "consequent")
ternary_end(loc, a, function) ==
  IF a.status # "ok" THEN a
  ELSE Do(a, [alternate |-> a.val] @@ loc,
          <<get_insert_block("alt_end"),
            build_unconditional_branch("end_block"),
            position_at_end(function, "end_block"),
            build_phi("phi", <<R("consequent"), R("alternate")>>, <<"con_end", "alt_end">>)>>,
          "phi")
ternary_alternate(es_node, env, r, function) ==
  ternary_end(r.loc, compile_expr(es_node.alternate, env, r, function), function)
ternary_consequent_end(es_node, env, loc, c, function) ==
  IF c.status # "ok" THEN c
  ELSE ternary_alternate(es_node, env,
         Run(c, [consequent |-> c.val] @@ loc,
             <<get_insert_block("con_end"),
               build_unconditional_branch("end_block"),
               position_at_end(function, "alternate_block")>>), function)
ternary_consequent(es_node, env, r, function) ==
  ternary_consequent_end(es_node, env, r.loc,
                         compile_expr(es_node.consequent, env, r, function), function)
\* a test whose tag is checked first
test_branch_checked(function, true_label, false_label, end_label) ==
  <<build_in_bounds_gep("type_ptr", R("test"), "source_obj", <<0, 0>>),
    build_load("type", R("type_ptr"), "i64")>>
  \o unary_check(function, R("type"), TAG_BOOLEAN)
  \o <<build_in_bounds_gep("value_ptr", R("test"), "source_obj", <<0, 1>>),
       build_load("value", R("value_ptr"), "i64"),
       build_op("as_i1", "trunc", <<R("value")>>, "i1"),
       append_basic_block("consequent_block", function, true_label),
       append_basic_block("alternate_block", function, false_label),
       append_basic_block("end_block", function, end_label),
       build_conditional_branch(R("as_i1"), "consequent_block", "alternate_block"),
       position_at_end(function, "consequent_block")>>
test_branch(function, true_label, false_label, end_label) ==
  <<build_in_bounds_gep("value_ptr", R("test"), "source_obj", <<0, 1>>),
    build_load("value", R("value_ptr"), "i64"),
    build_op("as_i1", "trunc", <<R("value")>>, "i1"),
    append_basic_block("consequent_block", function, true_label),
    append_basic_block("alternate_block", function, false_label),
    append_basic_block("end_block", function, end_label),
    build_conditional_branch(R("as_i1"), "consequent_block", "alternate_block"),
    position_at_end(function, "consequent_block")>>
test_done(x) == LogEv(x, TestEv(x))
ternary_test(es_node, env, t, function) ==
  IF t.status # "ok" THEN t
  ELSE ternary_consequent(es_node, env,
         test_done(Run(t, [test |-> t.val],
                       test_branch(function, "tern.true", "tern.false", "tern.end"))),
         function)
compile_ternary_expr(es_node, env, b, function) ==
  ternary_test(es_node, env, compile_expr(es_node.test, env, b, function), function)

\* copy args_ptr[i] into slot i+1 of the new frame
RECURSIVE copy_params_from_next(_, _)
\* a prologue that starts at entry 1 of the arguments array
copy_params_from_next(n, i) ==
  IF i >= n THEN <<>>
  ELSE <<build_in_bounds_gep("param_ptr", R("params"), "ptrs", <<i + 1>>),
         build_load("param", R("param_ptr"), "ptr"),
         build_in_bounds_gep("slot", R("this_env"), "ptrs", <<i + 1>>),
         build_store(R("slot"), R("param"))>> \o copy_params_from_next(n, i + 1)
RECURSIVE copy_params(_, _)
copy_params(n, i) ==
  IF i >= n THEN <<>>
  ELSE <<build_in_bounds_gep("param_ptr", R("params"), "ptrs", <<i>>),
         build_load("param", R("param_ptr"), "ptr"),
         build_in_bounds_gep("slot", R("this_env"), "ptrs", <<i + 1>>),
         build_store(R("slot"), R("param"))>> \o copy_params(n, i + 1)

RECURSIVE add_params(_, _)
add_params(env, params) ==
  IF params = <<>> THEN env
  ELSE add_params(add_name(env, Head(params).name), Tail(params))

\* a prologue that takes its static link from the arguments parameter
static_link_from_arguments == Param(1)
\* the two parameters of every emitted function: (captured frame, arguments)
enclosing_frame == Param(0)
params_ptr == Param(1)

fn_prologue(fun, env_size, n) ==
  <<append_basic_block("entry", fun, "f.entry"),
    position_at_end(fun, "entry"),
    malloc("addr", env_size),
    build_bitcast("env_value", R("addr"), "ptr"),
    build_bitcast("frame_ptr", R("env_value"), "ptr"),
    build_store(R("frame_ptr"), enclosing_frame),
    build_bitcast("params", params_ptr, "ptr"),
    build_bitcast("this_env", R("env_value"), "ptr")>>
  \o copy_params(n, 0)

\* builder.position_at_end(resume_point)
resume(resume_point) == Step("position", "", <<>>, "", <<resume_point[1]>>, <<"resume_point">>)

\* a closure literal built where the body ended
fn_literal_in_place(resume_point, parent, fun) ==
  <<malloc("mem", BOXED_VALUE_SIZE),
    build_bitcast("literal", R("mem"), "ptr"),
    build_in_bounds_gep("type_ptr", R("literal"), "closure", <<0, 0>>),
    build_in_bounds_gep("env_ptr", R("literal"), "closure", <<0, 1>>),
    build_in_bounds_gep("fun_ptr", R("literal"), "closure", <<0, 2>>),
    build_store(R("type_ptr"), IntC(TAG_FUNCTION)),
    build_store(R("env_ptr"), parent.ptr[1]),
    build_store(R("fun_ptr"), FnC(fun)),
    build_bitcast("closure", R("literal"), "ptr")>>
fn_literal(resume_point, parent, fun) ==
  <<resume(resume_point),
    malloc("mem", BOXED_VALUE_SIZE),
    build_bitcast("literal", R("mem"), "ptr"),
    build_in_bounds_gep("type_ptr", R("literal"), "closure", <<0, 0>>),
    build_in_bounds_gep("env_ptr", R("literal"), "closure", <<0, 1>>),
    build_in_bounds_gep("fun_ptr", R("literal"), "closure", <<0, 2>>),
    build_store(R("type_ptr"), IntC(TAG_FUNCTION)),
    build_store(R("env_ptr"), parent.ptr[1]),
    build_store(R("fun_ptr"), FnC(fun)),
    build_bitcast("closure", R("literal"), "ptr")>>

fn_closure(parent, fun, r) ==
  LogEv(LogEv(Ret(r, "closure"), ClosureEv(r.loc["mem"], parent, fun)),
        FnEndEv(Ret(r, "closure"), parent, fun))
\* the body of function fun has been lowered: the block under the cursor and
\* the number of its instructions
BodyEv(b, fun) ==
  [ev |-> "body", fn |-> fun, blk |-> b.cur[2], n |-> Len(InsertBlock(b).instrs)]
\* no return is appended to a body that falls off its end
fn_end_as_lowered(resume_point, parent, fun, body) ==
  IF body.status # "ok" THEN body
  ELSE fn_closure(parent, fun,
         Run(LogEv(body, BodyEv(body, fun)), [resume_point |-> resume_point[2]],
             fn_literal(resume_point, parent, fun)))
fn_end(resume_point, parent, fun, body) ==
  IF body.status # "ok" THEN body
  ELSE fn_closure(parent, fun,
         Run(LogEv(body, BodyEv(body, fun)), [resume_point |-> resume_point[2]],
             (IF get_terminator(InsertBlock(body)) = <<>>
              THEN build_undefined \o <<build_return(<<R("obj_ptr")>>, "ptr")>>
              ELSE <<>>)
             \o fn_literal(resume_point, parent, fun)))
fn_expression_body(r) ==
  IF r.status # "ok" THEN r
  ELSE Run(r, [result |-> r.val], <<build_return(<<R("result")>>, "ptr")>>)
fn_body(es_node, env, is_expression, b, fun) ==
  IF is_expression THEN fn_expression_body(compile_expr(es_node.body, env, b, fun))
  ELSE compile_block_stmt(es_node.body, env, b, fun)
fn_env(es_node, parent, is_expression) ==
  add_and_count_decls(add_params(Env_new(<<parent>>), es_node.params),
                      IF is_expression THEN <<>> ELSE es_node.body.body)
fn_frame(dc, r) == [dc.env EXCEPT !.ptr = <<r.loc["env_value"]>>]
fn_entry(es_node, parent, is_expression, resume_point, fun, dc, r) ==
  IF r.status # "ok" THEN r
  ELSE
  fn_end(resume_point, parent, fun,
         fn_body(es_node, fn_frame(dc, r), is_expression,
                 LogEv(r, EnvEv(fn_frame(dc, r), r.loc["addr"],
                                IF is_expression THEN <<>> ELSE es_node.body.body,
                                es_node.params)), fun))
fn_function(es_node, parent, is_expression, resume_point, fun, dc, b) ==
  fn_entry(es_node, parent, is_expression, resume_point, fun, dc,
           Run(b, <<>>, fn_prologue(fun, (dc.count + Len(es_node.params) + 1) * 8,
                                    Len(es_node.params))))
\* name is <<>> (None) or <<hint>>
compile_fn_expr(name, es_node, parent, is_expression, b) ==
  fn_function(es_node, parent, is_expression, b.cur, NextFn(b),
              fn_env(es_node, parent, is_expression),
              LogEv(add_function(b, IF name # <<>> THEN "__" \o name[1] ELSE "___closure",
                                 "ptr"),
                    FnStartEv(b.cur, NextFn(b))))

expr_done(type, first, x) ==
  IF x.status # "ok" THEN x ELSE LogEv(x, ExprEv(type, first, x))
compile_expr(es_node, env, b, function) ==
  IF "type" \notin DOMAIN es_node THEN Fail(b, "panic")
  ELSE expr_done(es_node.type, b.nreg,
  CASE es_node.type = "Identifier" -> compile_id_expr(es_node, env, b)
    [] es_node.type = "UnaryExpression" -> compile_unary_expr(es_node, env, b, function)
    [] es_node.type \in {"BinaryExpression", "LogicalExpression"} ->
         compile_binary_expr(es_node, env, b, function)
    [] es_node.type = "Literal" -> compile_literal_expr(es_node, b)
    [] es_node.type = "CallExpression" -> compile_call_expr(es_node, env, b, function)
    [] es_node.type = "ConditionalExpression" ->
         compile_ternary_expr(es_node, env, b, function)
    [] es_node.type = "ArrowFunctionExpression" ->
         compile_fn_expr(<<>>, es_node, env, es_node.expression, b)
    [] OTHER -> Fail(b, "err"))

(***************************************************************************)
(* stmt.rs                                                                 *)
(***************************************************************************)
\* store `v` in the cell the name resolves to (stmt.rs 67-95, 230-258)
\* the store of a declaration is the instruction just emitted
DeclEv(b, env, name, lk) ==
  [ev |-> "decl", fn |-> b.cur[1], blk |-> b.cur[2], at |-> Len(InsertBlock(b).instrs),
   name |-> name, slot |-> lk.offset, jumps |-> lk.jumps, env |-> env.ptr[1].n]
decl_done(x, env, name, lk) == LogEv(LogEv(x, ResolvedEv(env, name, lk)), DeclEv(x, env, name, lk))
\* the value is stored in the slot after the one the name resolves to
store_in_cell_after(name, env, v, lk) ==
  IF v.status # "ok" THEN v
  ELSE IF lk.status # "ok" THEN Fail(v, lk.status)
  ELSE decl_done(Run(v, [frame |-> env.ptr[1], value |-> v.val],
                     cell(lk.jumps, lk.offset + 1) \o <<build_store(R("ptr"), R("value"))>>),
                 env, name, lk)
store_in_cell(name, env, v, lk) ==
  IF v.status # "ok" THEN v
  ELSE IF lk.status # "ok" THEN Fail(v, lk.status)
  ELSE decl_done(Run(v, [frame |-> env.ptr[1], value |-> v.val],
                     cell(lk.jumps, lk.offset) \o <<build_store(R("ptr"), R("value"))>>),
                 env, name, lk)

compile_var_decl(es_node, env, b, function) ==
  store_in_cell(es_node.declarations[1].id.name, env,
                compile_expr(es_node.declarations[1].init, env, b, function),
                lookup(env, es_node.declarations[1].id.name))

compile_expr_stmt(es_node, env, b, function) ==
  compile_expr(es_node.expression, env, b, function)

\* for s in body.iter() { compile_stmt(s, ..).unwrap(); if s is a return { break } }
RECURSIVE block_loop(_, _, _, _, _)
\* a loop without the break
block_next_without_break(body, i, env, s, function) ==
  IF s.status # "ok" THEN s ELSE block_loop(body, i + 1, env, s, function)
block_next(body, i, env, s, function) ==
  IF s.status # "ok" THEN s
  ELSE IF body[i].type = "ReturnStatement" THEN s
  ELSE block_loop(body, i + 1, env, s, function)
block_loop(body, i, env, b, function) ==
  IF i > Len(body) THEN b
  ELSE block_next(body, i, env,
                  unwrap(compile_stmt(body[i], env, LogEv(b, StmtEv(env, body, i)),
                                      function)), function)

block_body(body, ae, function) ==
  IF ae.b.status # "ok" THEN ae.b ELSE block_loop(body, 1, ae.env, ae.b, function)
compile_block_stmt(es_node, parent, b, function) ==
  block_body(es_node.body, allocate_env(es_node.body, <<parent>>, b), function)

\* after an arm: branch to the join block unless the arm's last block already
\* has a terminator
\* an arm of an if statement has been lowered: the block under the cursor and
\* the number of its instructions, before the branch to end_block is patched in
ArmEv(b, end_block) ==
  [ev |-> "arm", fn |-> b.cur[1], blk |-> b.cur[2], n |-> Len(InsertBlock(b).instrs),
   end_block |-> end_block]
\* a branch after every arm
arm_end_always(s, end_block) ==
  IF s.status # "ok" THEN s
  ELSE Run(LogEv(s, ArmEv(s, end_block)), [end_block |-> end_block],
           <<build_unconditional_branch("end_block")>>)
arm_end(s, end_block) ==
  IF s.status # "ok" THEN s
  ELSE IF get_terminator(InsertBlock(s)) = <<>>
  THEN Run(LogEv(s, ArmEv(s, end_block)), [end_block |-> end_block],
           <<build_unconditional_branch("end_block")>>)
  ELSE LogEv(s, ArmEv(s, end_block))
if_arm(es_node, env, b, function, end_block) ==
  arm_end(compile_stmt(es_node, env, b, function), end_block)

if_done(x) == LogEv(x, IfEv(x))
if_end(loc, a, function) ==
  IF a.status # "ok" THEN a
  ELSE if_done(Run(a, loc, <<position_at_end(function, "end_block")>>))
if_alternate(es_node, env, r, function) ==
  IF "alternate" \notin DOMAIN es_node THEN Fail(r, "panic")
  ELSE if_end(r.loc, if_arm(es_node.alternate, env, r, function, r.loc["end_block"]),
              function)
if_consequent_end(es_node, env, loc, c, function) ==
  IF c.status # "ok" THEN c
  ELSE if_alternate(es_node, env,
                    Run(c, loc, <<position_at_end(function, "alternate_block")>>), function)
if_consequent(es_node, env, r, function) ==
  if_consequent_end(es_node, env, r.loc,
                    if_arm(es_node.consequent, env, r, function, r.loc["end_block"]),
                    function)
if_test(es_node, env, t, function) ==
  IF t.status # "ok" THEN t
  ELSE if_consequent(es_node, env,
         test_done(Run(t, [test |-> t.val],
                       test_branch(function, "if.true", "if.false", "if.end"))),
         function)
compile_if_stmt(es_node, env, b, function) ==
  if_test(es_node, env, compile_expr(es_node.test, env, b, function), function)

compile_fn_decl(es_node, env, b) ==
  store_in_cell(es_node.id.name, env,
                compile_fn_expr(<<es_node.id.name>>, es_node, env, FALSE, b),
                lookup(env, es_node.id.name))

return_value(r) ==
  IF r.status # "ok" THEN r
  ELSE Run(r, [result |-> r.val], <<build_return(<<R("result")>>, "ptr")>>)
compile_return_stmt(es_node, env, b, function) ==
  return_value(compile_expr(es_node.argument, env, b, function))

\* Result<Option<PointerValue>>: `some` tells Some(val) from None
None(b) == [b EXCEPT !.some = FALSE]
\* an expression statement whose value is dropped like a declaration's
Some_dropped(b) == [b EXCEPT !.some = FALSE]
Some(b) == [b EXCEPT !.some = TRUE]

compile_stmt(es_node, env, b, function) ==
  IF "type" \notin DOMAIN es_node THEN Fail(b, "panic")
  ELSE
  CASE es_node.type = "VariableDeclaration" ->
         None(compile_var_decl(es_node, env, b, function))
    [] es_node.type = "ExpressionStatement" ->
         Some(compile_expr_stmt(es_node, env, b, function))
    [] es_node.type = "BlockStatement" ->
         None(compile_block_stmt(es_node, env, b, function))
    [] es_node.type = "IfStatement" ->
         None(compile_if_stmt(es_node, env, b, function))
    [] es_node.type = "FunctionDeclaration" ->
         None(compile_fn_decl(es_node, env, b))
    [] es_node.type = "ReturnStatement" ->
         None(compile_return_stmt(es_node, env, b, function))
    [] OTHER -> Fail(b, "err")

(***************************************************************************)
(* lib.rs: compile                                                         *)
(***************************************************************************)
\* body.iter().map(|s| compile_stmt(s, ..).unwrap()).last()
RECURSIVE main_loop(_, _, _, _, _)
main_next(body, i, env, s, function) ==
  IF s.status # "ok" THEN s
  ELSE main_loop(body, i + 1, env, LogEv(s, DoneEv(env, i, s)), function)
main_loop(body, i, env, b, function) ==
  IF i > Len(body) THEN b
  ELSE main_next(body, i, env,
                 unwrap(compile_stmt(body[i], env, LogEv(b, StmtEv(env, body, i)),
                                     function)), function)

\* the terminator rule of module.verify(): every block of a defined function
\* ends in its only terminator, and every ret has the function's return type
WellTerminated(blk) ==
  /\ blk.instrs # <<>>
  /\ \A i \in 1..Len(blk.instrs) : IsTerminator(blk.instrs[i]) <=> i = Len(blk.instrs)

verify(b) ==
  \A f \in 1..Len(b.funs) : \A k \in 1..Len(b.funs[f].blocks) :
     /\ WellTerminated(b.funs[f].blocks[k])
     /\ \A i \in 1..Len(b.funs[f].blocks[k].instrs) :
          b.funs[f].blocks[k].instrs[i].op = "ret"
            => b.funs[f].blocks[k].instrs[i].ty = b.funs[f].ret

main_entry(b, main_function) ==
  Run(add_function(b, "main", "i32"), <<>>,
      <<append_basic_block("entry", main_function, "entry"),
        position_at_end(main_function, "entry")>>)
main_end(es_node, l) ==
  IF l.status # "ok" THEN l
  \* .last().unwrap() of an empty iterator
  ELSE IF es_node.body = <<>> THEN Fail(l, "panic")
  ELSE Run(l, [last |-> l.val],
           build_undefined
           \o <<build_call("", F("display"), <<IF l.some THEN R("last") ELSE R("obj_ptr")>>),
                build_return(<<IntC(0)>>, "i32")>>)
main_body(es_node, ae, main_function) ==
  IF ae.b.status # "ok" THEN ae.b
  ELSE
  main_end(es_node, main_loop(es_node.body, 1, ae.env, None(ae.b), main_function))
main(es_node, b) ==
  IF b.status # "ok" THEN b
  ELSE
  main_body(es_node, allocate_env(es_node.body, <<>>, main_entry(b, NextFn(b))), NextFn(b))
\* the generation part of compile (lib.rs 49-84)
generate(es_node) == main(es_node, setup(NewBuilder))

\* module.verify().map_err(..)?
verified(g) == IF g.status = "ok" /\ ~verify(g) THEN Fail(g, "err") ELSE g

compile(es_node) == verified(generate(es_node))

(***************************************************************************)
(* Values of the emitted code.  A double is modelled on the integers, the  *)
(* infinities and NaN, and the tenths 0.1 .. 0.9 as literals; a result     *)
(* outside them stops the run ("unmodelled").                              *)
(***************************************************************************)
Inf(sign) == V("f64", sign, 0, "inf")
NaN == V("f64", 0, 0, "nan")
Inexact == V("f64", 0, 0, "inexact")
IsFin(x) == x.k = "f64" /\ x.s = "fin"
Sign(n) == IF n > 0 THEN 1 ELSE IF n < 0 THEN -1 ELSE 0
Abs(n) == IF n < 0 THEN -n ELSE n

\* bitcast between i64 and f64
BitsToF64(v) ==
  CASE v.k = "int" /\ v.n = 0 -> F64(0)
    [] v.k = "fbits" -> V("f64", v.n, v.o, v.s)
    [] OTHER -> Inexact
F64ToBits(x) ==
  IF IsFin(x) /\ x.n = 0 THEN IntC(0) ELSE V("fbits", x.n, x.o, x.s)

FAdd(x, y) ==
  CASE x.s = "nan" \/ y.s = "nan" -> NaN
    [] {x.s, y.s} \cap {"inexact", "tenths"} # {} -> Inexact
    [] x.s = "inf" /\ y.s = "inf" -> IF x.n = y.n THEN x ELSE NaN
    [] x.s = "inf" -> x
    [] y.s = "inf" -> y
    [] OTHER -> F64(x.n + y.n)
FNeg(x) == IF x.s \in {"nan", "inexact"} THEN x ELSE V("f64", -x.n, 0, x.s)
FMul(x, y) ==
  CASE x.s = "nan" \/ y.s = "nan" -> NaN
    [] {x.s, y.s} \cap {"inexact", "tenths"} # {} -> Inexact
    [] x.s = "inf" \/ y.s = "inf" ->
         IF Sign(x.n) * Sign(y.n) = 0 THEN NaN ELSE Inf(Sign(x.n) * Sign(y.n))
    [] OTHER -> F64(x.n * y.n)
FDiv(x, y) ==
  CASE x.s = "nan" \/ y.s = "nan" -> NaN
    [] {x.s, y.s} \cap {"inexact", "tenths"} # {} -> Inexact
    [] x.s = "inf" /\ y.s = "inf" -> NaN
    [] x.s = "inf" -> Inf(x.n * (IF y.n < 0 THEN -1 ELSE 1))
    [] y.s = "inf" -> F64(0)
    [] y.n = 0 -> IF x.n = 0 THEN NaN ELSE Inf(Sign(x.n))
    [] Abs(x.n) % Abs(y.n) = 0 -> F64(Sign(x.n) * Sign(y.n) * (Abs(x.n) \div Abs(y.n)))
    [] OTHER -> Inexact
\* fmod: the result has the sign of the dividend
FRem(x, y) ==
  CASE x.s = "nan" \/ y.s = "nan" -> NaN
    [] {x.s, y.s} \cap {"inexact", "tenths"} # {} -> Inexact
    [] x.s = "inf" -> NaN
    [] y.s = "inf" -> x
    [] y.n = 0 -> NaN
    [] OTHER -> F64(Sign(x.n) * (Abs(x.n) % Abs(y.n)))
FArith(op, x, y) ==
  CASE op = "fadd" -> FAdd(x, y)
    [] op = "fsub" -> FAdd(x, FNeg(y))
    [] op = "fmul" -> FMul(x, y)
    [] op = "fdiv" -> FDiv(x, y)
    [] op = "frem" -> FRem(x, y)

\* position on the extended real line, for the ordered predicates
Rank(x) == IF x.s = "inf" THEN <<x.n, 0>> ELSE <<0, x.n>>
FLess(x, y) ==
  \/ Rank(x)[1] < Rank(y)[1]
  \/ Rank(x)[1] = Rank(y)[1] /\ Rank(x)[2] < Rank(y)[2] /\ x.s = "fin"
\* ordered predicates: false when either operand is NaN
FCmp(pred, x, y) ==
  IF x.s = "nan" \/ y.s = "nan" THEN FALSE
  ELSE CASE pred = "OLT" -> FLess(x, y)
         [] pred = "OGT" -> FLess(y, x)
         [] pred = "OLE" -> ~FLess(y, x)
         [] pred = "OGE" -> ~FLess(x, y)
         [] pred = "OEQ" -> ~FLess(x, y) /\ ~FLess(y, x)
         [] pred = "ONE" -> FLess(x, y) \/ FLess(y, x)

\* two's complement and/or on integers of any sign
RECURSIVE BitAnd(_, _)
BitAnd(x, y) ==
  IF x = 0 \/ y = 0 THEN 0
  ELSE IF x = -1 THEN y
  ELSE IF y = -1 THEN x
  ELSE 2 * BitAnd(x \div 2, y \div 2) + (x % 2) * (y % 2)
\* a logical negation of the whole payload
BitNot_logical(x) == IF x = 0 THEN 1 ELSE 0
BitNot(x) == -x - 1
BitOr(x, y) == BitNot(BitAnd(BitNot(x), BitNot(y)))

\* the low bit of an i64: a double with an integer value below 2^52, an
\* infinity and the default NaN have mantissa bit 0 clear; of the tenths,
\* 0.3 (0x3FD3333333333333), 0.6 (0x3FE3333333333333) and 0.9
\* (0x3FECCCCCCCCCCCCD) have it set; a malloc'ed address is even
LowBit(v) ==
  CASE v.k = "int" -> v.n % 2
    [] v.k = "fbits" /\ v.s = "tenths" -> IF Abs(v.n) \in {3, 6, 9} THEN 1 ELSE 0
    [] OTHER -> 0

RECURSIVE Digits(_)
Digits(n) ==
  IF n < 10 THEN <<"0", "1", "2", "3", "4", "5", "6", "7", "8", "9">>[n + 1]
  ELSE Digits(n \div 10) \o Digits(n % 10)
\* printf("%lf\n", x): six digits after the point
FormatLf(x) ==
  CASE x.s = "fin" -> (IF x.n < 0 THEN "-" ELSE "") \o Digits(Abs(x.n)) \o ".000000\n"
    [] x.s = "tenths" -> (IF x.n < 0 THEN "-0." ELSE "0.") \o Digits(Abs(x.n)) \o "00000\n"
    [] x.s = "inf" -> (IF x.n < 0 THEN "-inf\n" ELSE "inf\n")
    [] OTHER -> "nan\n"
Format(fmt, args) == IF fmt = "%lf\n" THEN FormatLf(args[1]) ELSE fmt

(***************************************************************************)
(* Memory of the emitted code: malloc'ed objects of `size` bytes; `mem`    *)
(* maps a written byte offset to the value stored there, `site` is the     *)
(* SSA value of the malloc that allocated the object and `act` the         *)
(* activation that ran it.                                                 *)
(***************************************************************************)
Width(v) == IF v.k \in {"int", "fbits"} THEN 8 ELSE PtrBytes
GepOffset(ins) ==
  CASE ins.ty = "source_obj" -> ins.idx[2] * 8
    [] ins.ty = "closure" -> IF ins.idx[2] = 0 THEN 0 ELSE 8 + (ins.idx[2] - 1) * PtrBytes
    [] ins.ty = "ptrs" -> ins.idx[1] * PtrBytes
ValidPtr(hp, p) == p.k = "ptr" /\ p.n \in 1..Len(hp)
InBounds(hp, p, w) == p.o >= 0 /\ p.o + w <= hp[p.n].size
ReadMem(hp, p, ty) ==
  LET m == hp[p.n].mem
  IN IF p.o \notin DOMAIN m \/ ~InBounds(hp, p, IF ty = "i64" THEN 8 ELSE PtrBytes)
     THEN Uninit
     ELSE IF ty = "i64" /\ m[p.o].k \in {"ptr", "fn"} THEN V("pbits", m[p.o].n, m[p.o].o, "")
     ELSE IF ty = "ptr" /\ m[p.o].k \in {"int", "fbits"} THEN Uninit
     ELSE m[p.o]

(***************************************************************************)
(* The checked inputs.                                                     *)
(***************************************************************************)
Display(e) == ExprStmt(Call(Id("display"), <<e>>))
P(n) == [name |-> n]

\* display(1 + 2);
Scenario1 == Program(<<Display(Binary("+", Num(1), Num(2)))>>)
\* const x = true; display(!x);
Scenario2 == Program(<<VarDecl("x", Bool(TRUE)), Display(Unary("!", Id("x")))>>)
\* function f(n) { return n === 0 ? 1 : n * f(n - 1); } display(f(k));
Scenario3(k) ==
  Program(<<FnDecl("f", <<P("n")>>,
              <<Return(Cond(Binary("===", Id("n"), Num(0)), Num(1),
                            Binary("*", Id("n"),
                                   Call(Id("f"), <<Binary("-", Id("n"), Num(1))>>))))>>),
            Display(Call(Id("f"), <<Num(k)>>))>>)
\* const a = (x => y => x + y)(10); display(a(32));
Scenario4 ==
  Program(<<VarDecl("a", Call(ArrowE(<<P("x")>>,
                                     ArrowE(<<P("y")>>, Binary("+", Id("x"), Id("y")))),
                              <<Num(10)>>)),
            Display(Call(Id("a"), <<Num(32)>>))>>)
\* display(1 + true);
Scenario5 == Program(<<Display(Binary("+", Num(1), Bool(TRUE)))>>)
\* function g() { if (true) { return 7; } return 9; } display(g());
Scenario6 ==
  Program(<<FnDecl("g", <<>>, <<IfNoElse(Bool(TRUE), Block(<<Return(Num(7))>>)),
                                Return(Num(9))>>),
            Display(Call(Id("g"), <<>>))>>)

\* the same with the alternate spelled null, and with an empty else block
Scenario6Null ==
  Program(<<FnDecl("g", <<>>, <<If(Bool(TRUE), Block(<<Return(Num(7))>>), JNull),
                                Return(Num(9))>>),
            Display(Call(Id("g"), <<>>))>>)
Scenario6Else(t) ==
  Program(<<FnDecl("g", <<>>, <<If(Bool(t), Block(<<Return(Num(7))>>), Block(<<>>)),
                                Return(Num(9))>>),
            Display(Call(Id("g"), <<>>))>>)

\* display((x1 => x2 => .. xn => x1 + x2 + .. + xn)(1)(2)..(n));
X(i) == <<"x1", "x2", "x3", "x4", "x5", "x6">>[i]
RECURSIVE SumIds(_)
SumIds(n) == IF n = 1 THEN Id(X(1)) ELSE Binary("+", SumIds(n - 1), Id(X(n)))
RECURSIVE Arrows(_, _)
Arrows(i, n) == ArrowE(<<P(X(i))>>, IF i = n THEN SumIds(n) ELSE Arrows(i + 1, n))
RECURSIVE Applied(_, _)
Applied(n, k) == IF k = 0 THEN Arrows(1, n) ELSE Call(Applied(n, k - 1), <<Num(k)>>)
Chain(n) == Program(<<Display(Applied(n, n))>>)

\* function f() { return 1; } function g() { return f(); } display(g());
CallerFrame ==
  Program(<<FnDecl("f", <<>>, <<Return(Num(1))>>),
            FnDecl("g", <<>>, <<Return(Call(Id("f"), <<>>))>>),
            Display(Call(Id("g"), <<>>))>>)
\* function mk(n) { return () => n; } const a = mk(1); const b = mk(2);
\* display(a() - b());
PerCall ==
  Program(<<FnDecl("mk", <<P("n")>>, <<Return(ArrowE(<<>>, Id("n")))>>),
            VarDecl("a", Call(Id("mk"), <<Num(1)>>)),
            VarDecl("b", Call(Id("mk"), <<Num(2)>>)),
            Display(Binary("-", Call(Id("a"), <<>>), Call(Id("b"), <<>>)))>>)
\* const x = 1; { const x = 2; { display(x); } } display(x);
Shadow ==
  Program(<<VarDecl("x", Num(1)),
            Block(<<VarDecl("x", Num(2)), Block(<<Display(Id("x"))>>)>>),
            Display(Id("x"))>>)
\* function f() { return g(); } function g() { return 5; } display(f());
ForwardFn ==
  Program(<<FnDecl("f", <<>>, <<Return(Call(Id("g"), <<>>))>>),
            FnDecl("g", <<>>, <<Return(Num(5))>>),
            Display(Call(Id("f"), <<>>))>>)
\* const f = () => x; const x = 4; display(f());
ForwardVar ==
  Program(<<VarDecl("f", ArrowE(<<>>, Id("x"))), VarDecl("x", Num(4)),
            Display(Call(Id("f"), <<>>))>>)
\* { const f = () => y; const y = 6; display(f()); }
ForwardInBlock ==
  Program(<<Block(<<VarDecl("f", ArrowE(<<>>, Id("y"))), VarDecl("y", Num(6)),
                    Display(Call(Id("f"), <<>>))>>)>>)
\* function h() { const f = () => z; const z = 8; return f(); } display(h());
ForwardInFn ==
  Program(<<FnDecl("h", <<>>, <<VarDecl("f", ArrowE(<<>>, Id("z"))), VarDecl("z", Num(8)),
                                Return(Call(Id("f"), <<>>))>>),
            Display(Call(Id("h"), <<>>))>>)
\* display(x); const x = 1;
ReadBeforeInit == Program(<<Display(Id("x")), VarDecl("x", Num(1))>>)
\* function h() { { return 1; } return 2; } display(h());
NestedReturn ==
  Program(<<FnDecl("h", <<>>, <<Block(<<Return(Num(1))>>), Return(Num(2))>>),
            Display(Call(Id("h"), <<>>))>>)

\* inputs the lowering rejects
UnknownStmt == Program(<<[type |-> "WhileStatement"]>>)
UnknownExprInBlock == Program(<<Block(<<ExprStmt([type |-> "ThisExpression"])>>)>>)
UnresolvedInFn == Program(<<FnDecl("f", <<>>, <<Return(Id("q"))>>)>>)
BadOperator == Program(<<ExprStmt(Binary("**", Num(1), Num(2)))>>)
StringArg == Program(<<Display(Lit(JStr("s")))>>)
ErrPrograms == {UnknownStmt, UnknownExprInBlock, UnresolvedInFn, BadOperator, StringArg}
\* y;
UndeclaredTop == Program(<<ExprStmt(Id("y"))>>)
Empty == Program(<<>>)

\* 1; const x = 2;      const x = 2; x;      1; 2;
LastIsDecl == Program(<<ExprStmt(Num(1)), VarDecl("x", Num(2))>>)
LastIsExpr == Program(<<VarDecl("x", Num(2)), ExprStmt(Id("x"))>>)
TwoExprs == Program(<<ExprStmt(Num(1)), ExprStmt(Num(2))>>)

\* display(-(3)); display(true && false); display(false || true);
\* display(7 % 3); display(6 / 3); display(1 / 0); display(1 < 2);
Operators ==
  Program(<<Display(Unary("-", Num(3))),
            Display(Logical("&&", Bool(TRUE), Bool(FALSE))),
            Display(Logical("||", Bool(FALSE), Bool(TRUE))),
            Display(Binary("%", Num(7), Num(3))),
            Display(Binary("/", Num(6), Num(3))),
            Display(Binary("/", Num(1), Num(0))),
            Display(Binary("<", Num(1), Num(2)))>>)
\* const x = 1; x();
NotAFunction == Program(<<VarDecl("x", Num(1)), ExprStmt(Call(Id("x"), <<>>))>>)

\* function h() { display(1); return 2; display(3); return 4; } display(h());
ReturnEarly ==
  Program(<<FnDecl("h", <<>>, <<Display(Num(1)), Return(Num(2)), Display(Num(3)),
                                Return(Num(4))>>),
            Display(Call(Id("h"), <<>>))>>)
\* function h() { if (true) { return 5; display(6); } else { } return 7; } display(h());
ReturnInArm ==
  Program(<<FnDecl("h", <<>>, <<If(Bool(TRUE), Block(<<Return(Num(5)), Display(Num(6))>>),
                                   Block(<<>>)),
                                Return(Num(7))>>),
            Display(Call(Id("h"), <<>>))>>)
ReturnPrograms == {ReturnEarly, ReturnInArm}

\* display(l op r); for every operator and every pair of operand tags: the
\* operands are display(0) (undefined), true, 2 and () => 0
Operand(tag) ==
  CASE tag = TAG_UNDEFINED -> Call(Id("display"), <<Num(0)>>)
    [] tag = TAG_BOOLEAN -> Bool(TRUE)
    [] tag = TAG_NUMBER -> Num(2)
    [] tag = TAG_FUNCTION -> ArrowE(<<>>, Num(0))
Tags == {TAG_UNDEFINED, TAG_BOOLEAN, TAG_NUMBER, TAG_FUNCTION}
BinaryOperators == DOMAIN ArithOps \cup DOMAIN CompareOps \cup DOMAIN LogicOps
OperatorNode(o, l, r) == IF o \in DOMAIN LogicOps THEN Logical(o, l, r) ELSE Binary(o, l, r)
TagPair(o, lt, rt) == Program(<<Display(OperatorNode(o, Operand(lt), Operand(rt)))>>)
TagPairs == {TagPair(o, lt, rt) : o \in BinaryOperators, lt \in Tags, rt \in Tags}

\* display(c()); for a callee c of every tag
CallOf(tag) == Program(<<Display(Call(Operand(tag), <<>>))>>)
CallPrograms == {CallOf(tag) : tag \in Tags}

\* const display = 5; display(1);
DisplayConst == Program(<<VarDecl("display", Num(5)), Display(Num(1))>>)
\* function display(x) { return 9; } display(display(2));
DisplayFn ==
  Program(<<FnDecl("display", <<P("x")>>, <<Return(Num(9))>>),
            Display(Call(Id("display"), <<Num(2)>>))>>)
\* ((display) => display(3))(4);
DisplayParam ==
  Program(<<ExprStmt(Call(ArrowE(<<P("display")>>, Call(Id("display"), <<Num(3)>>)),
                          <<Num(4)>>))>>)
DisplayPrograms == {DisplayConst, DisplayFn, DisplayParam}

\* function g() { display(8); return lv; } function f() { display(9); return rv; }
\* display(g() op f());
BothSides(o, lv, rv) ==
  Program(<<FnDecl("g", <<>>, <<Display(Num(8)), Return(lv)>>),
            FnDecl("f", <<>>, <<Display(Num(9)), Return(rv)>>),
            Display(Logical(o, Call(Id("g"), <<>>), Call(Id("f"), <<>>)))>>)
\* display(false && (1 + true)); display(true || (1 + true));
RightFails(o) ==
  Program(<<Display(Logical(o, Bool(o = "||"), Binary("+", Num(1), Bool(TRUE))))>>)
LogicalPrograms ==
  {BothSides(o, Bool(lv), Bool(rv)) : o \in DOMAIN LogicOps, lv \in BOOLEAN, rv \in BOOLEAN}
    \cup {BothSides(o, Bool(o = "||"), Num(1)) : o \in DOMAIN LogicOps}
    \cup {RightFails(o) : o \in DOMAIN LogicOps}

\* display(!b); for booleans b with the payloads 1, 0, -2 (!true),
\* -1 (!false, and 1 < 2) and 0 (2 < 1), and for an operand of each other tag
Booleans ==
  <<Bool(TRUE), Bool(FALSE), Unary("!", Bool(TRUE)), Unary("!", Bool(FALSE)),
    Binary("<", Num(1), Num(2)), Binary("<", Num(2), Num(1))>>
NotOf(x) == Program(<<Display(Unary("!", x))>>)
NotPrograms ==
  {NotOf(Booleans[k]) : k \in DOMAIN Booleans} \cup {NotOf(Operand(tag)) : tag \in Tags}

\* if (t) { display(1); } else { display(2); }     display(t ? 1 : 2);
\* for the tests true, false, !false (payload -1), !true (payload -2), 1,
\* 0.3, 0.5, () => 0 and display(0) (undefined)
Tests ==
  <<Bool(TRUE), Bool(FALSE), Unary("!", Bool(FALSE)), Unary("!", Bool(TRUE)), Num(1),
    Lit(JTenths(3)), Lit(JTenths(5)), Operand(TAG_FUNCTION), Operand(TAG_UNDEFINED)>>
IfOf(t) == Program(<<If(t, Block(<<Display(Num(1))>>), Block(<<Display(Num(2))>>))>>)
TernaryOf(t) == Program(<<Display(Cond(t, Num(1), Num(2)))>>)
TestPrograms == {IfOf(Tests[k]) : k \in DOMAIN Tests} \cup {TernaryOf(Tests[k]) : k \in DOMAIN Tests}

\* const x = 1; const f = (x) => { const y = x; { const x = 3; display(x); } return y; };
\* display(f(2)); display(x);
ShadowParam ==
  Program(<<VarDecl("x", Num(1)),
            VarDecl("f", ArrowB(<<P("x")>>,
                                <<VarDecl("y", Id("x")),
                                  Block(<<VarDecl("x", Num(3)), Display(Id("x"))>>),
                                  Return(Id("y"))>>)),
            Display(Call(Id("f"), <<Num(2)>>)),
            Display(Id("x"))>>)

\* 1(display(2));
NumberCalledWithDisplay ==
  Program(<<ExprStmt(Call(Num(1), <<Call(Id("display"), <<Num(2)>>)>>))>>)
\* function g() { display(8); return (x) => x; } function f() { display(9); return 3; }
\* display(g()(f()));
CalleeAndArgument ==
  Program(<<FnDecl("g", <<>>, <<Display(Num(8)), Return(ArrowE(<<P("x")>>, Id("x")))>>),
            FnDecl("f", <<>>, <<Display(Num(9)), Return(Num(3))>>),
            Display(Call(Call(Id("g"), <<>>), <<Call(Id("f"), <<>>)>>))>>)

\* const a = 1; { const b = 2; const c = 3; display(b + c); }
\* function f(p, q) { const d = p; { const e = 5; display(e); } return d + q; }
\* const g = 6; display(f(a, g));
DeclsEverywhere ==
  Program(<<VarDecl("a", Num(1)),
            Block(<<VarDecl("b", Num(2)), VarDecl("c", Num(3)),
                    Display(Binary("+", Id("b"), Id("c")))>>),
            FnDecl("f", <<P("p"), P("q")>>,
                   <<VarDecl("d", Id("p")),
                     Block(<<VarDecl("e", Num(5)), Display(Id("e"))>>),
                     Return(Binary("+", Id("d"), Id("q")))>>),
            VarDecl("g", Num(6)),
            Display(Call(Id("f"), <<Id("a"), Id("g")>>))>>)

\* function o() { if (true) { function i() { return () => 1; } return i()(); } else { }
\*                return 2; }
\* display(o());
NestedDecl ==
  Program(<<FnDecl("o", <<>>,
                   <<If(Bool(TRUE),
                        Block(<<FnDecl("i", <<>>, <<Return(ArrowE(<<>>, Num(1)))>>),
                                Return(Call(Call(Id("i"), <<>>), <<>>))>>),
                        Block(<<>>)),
                     Return(Num(2))>>),
            Display(Call(Id("o"), <<>>))>>)

\* function h(t) { if (t) { if (false) { display(1); } else { display(2); } }
\*                 else { if (true) { return 4; } else { return 5; } }
\*                 return 3; }
\* display(h(t));
IfInArms(t) ==
  Program(<<FnDecl("h", <<P("t")>>,
                   <<If(Id("t"),
                        Block(<<If(Bool(FALSE), Block(<<Display(Num(1))>>),
                                   Block(<<Display(Num(2))>>))>>),
                        Block(<<If(Bool(TRUE), Block(<<Return(Num(4))>>),
                                   Block(<<Return(Num(5))>>))>>)),
                     Return(Num(3))>>),
            Display(Call(Id("h"), <<Bool(t)>>))>>)

\* function f() { } display(f());
EmptyBody == Program(<<FnDecl("f", <<>>, <<>>), Display(Call(Id("f"), <<>>))>>)
\* function g(t) { if (t) { display(1); } else { return 2; } } display(g(t));
FallsOff(t) ==
  Program(<<FnDecl("g", <<P("t")>>,
                   <<If(Id("t"), Block(<<Display(Num(1))>>), Block(<<Return(Num(2))>>))>>),
            Display(Call(Id("g"), <<Bool(t)>>))>>)
\* display((() => 5)()); display((() => { })());
ArrowBodies ==
  Program(<<Display(Call(ArrowE(<<>>, Num(5)), <<>>)),
            Display(Call(ArrowB(<<>>, <<>>), <<>>))>>)

\* function f(x) { display(x); const x = 5; return x; } display(f(7));
ParamAndDecl ==
  Program(<<FnDecl("f", <<P("x")>>,
                   <<Display(Id("x")), VarDecl("x", Num(5)), Return(Id("x"))>>),
            Display(Call(Id("f"), <<Num(7)>>))>>)

\* the first n of the arguments 5, 3, 1
Given(n) == SubSeq(<<Num(5), Num(3), Num(1)>>, 1, n)
\* function f(a, b) { return 9; } display(f(<n arguments>));
ArityIgnored(n) ==
  Program(<<FnDecl("f", <<P("a"), P("b")>>, <<Return(Num(9))>>),
            Display(Call(Id("f"), Given(n)))>>)
\* function k(a, b) { return a - b; } display(k(<n arguments>));
ArityUsed(n) ==
  Program(<<FnDecl("k", <<P("a"), P("b")>>, <<Return(Binary("-", Id("a"), Id("b")))>>),
            Display(Call(Id("k"), Given(n)))>>)
ArityPrograms == {ArityIgnored(n) : n \in 0..3} \cup {ArityUsed(n) : n \in 2..3}

Programs ==
  {Scenario1, Scenario2, Scenario4, Scenario5, Scenario6, Scenario6Null,
   CallerFrame, PerCall, Shadow, ForwardFn, ForwardVar, ForwardInBlock, ForwardInFn,
   ReadBeforeInit, NestedReturn, UndeclaredTop, Empty, LastIsDecl, LastIsExpr,
   TwoExprs, Operators, NotAFunction}
    \cup ErrPrograms
    \cup {Scenario3(k) : k \in 0..MaxFact}
    \cup {Scenario6Else(t) : t \in BOOLEAN}
    \cup {Chain(n) : n \in 1..MaxChain}
    \cup ReturnPrograms
    \cup TagPairs
    \cup CallPrograms
    \cup DisplayPrograms
    \cup LogicalPrograms
    \cup NotPrograms
    \cup TestPrograms
    \cup {ShadowParam, NumberCalledWithDisplay, CalleeAndArgument, DeclsEverywhere,
          NestedDecl}
    \cup {IfInArms(t) : t \in BOOLEAN}
    \cup ArityPrograms
    \cup {EmptyBody, ArrowBodies, ParamAndDecl} \cup {FallsOff(t) : t \in BOOLEAN}

(***************************************************************************)
(* State: the input, the generator's result, and the machine that runs     *)
(* the emitted module.                                                     *)
(***************************************************************************)
VARIABLES prog, phase, gen, result, heap, stack, out, exit_code, steps

vars == <<prog, phase, gen, result, heap, stack, out, exit_code, steps>>

Init ==
  /\ prog \in Programs
  /\ phase = "input"
  /\ gen = NewBuilder
  /\ result = "none"
  /\ heap = <<>>
  /\ stack = <<>>
  /\ out = <<>>
  /\ exit_code = -1
  /\ steps = 0

\* lib.rs compile: generate, then module.verify()
Compile ==
  /\ phase = "input"
  /\ gen' = generate(prog)
  /\ result' = verified(gen').status
  /\ phase' = "compiled"
  /\ UNCHANGED <<prog, heap, stack, out, exit_code, steps>>

\* `id` (the step of the call) and `clo` (the closure record called, 0 for a
\* direct call) are history: the emitted code does not read them
Activation(f, params, dst, clo) ==
  [fn |-> f, blk |-> 1, pc |-> 1, prev |-> 0, regs |-> <<>>, params |-> params,
   dst |-> dst, clo |-> clo, id |-> steps]

\* the host calls main of a module that compiled
Start ==
  /\ phase = "compiled"
  /\ result = "ok"
  /\ phase' = "running"
  /\ stack' = <<Activation(get_function(gen, "main"), <<>>, 0, 0)>>
  /\ UNCHANGED <<prog, gen, result, heap, out, exit_code, steps>>

Top == stack[Len(stack)]
CurBlock == gen.funs[Top.fn].blocks[Top.blk]
CurIns == CurBlock.instrs[Top.pc]
Val(a, x) ==
  CASE x.k = "reg" -> a.regs[x.n]
    [] x.k = "param" -> a.params[x.n + 1]
    [] OTHER -> x
Arg(i) == Val(Top, CurIns.args[i])

Running(op) ==
  /\ phase = "running"
  /\ steps < MaxSteps
  /\ Top.pc <= Len(CurBlock.instrs)
  /\ CurIns.op = op
  /\ steps' = steps + 1
  /\ UNCHANGED <<prog, gen, result>>

SetReg(v) ==
  stack' = [stack EXCEPT ![Len(stack)].regs = (CurIns.dst :> v) @@ @,
                         ![Len(stack)].pc = @ + 1]
Advance == stack' = [stack EXCEPT ![Len(stack)].pc = @ + 1]
Goto(blk) ==
  stack' = [stack EXCEPT ![Len(stack)].prev = Top.blk,
                         ![Len(stack)].blk = blk,
                         ![Len(stack)].pc = 1]
Stop(how) == phase' = how /\ UNCHANGED <<heap, stack, out, exit_code>>

IsCallOf(name) == CurIns.args[1].k = "fn" /\ gen.funs[CurIns.args[1].n].name = name
CallArgs == [i \in 1..(Len(CurIns.args) - 1) |-> Arg(i + 1)]

ExecMalloc ==
  /\ Running("call") /\ IsCallOf("malloc")
  /\ heap' = Append(heap, [size |-> Arg(2).n, mem |-> <<>>, site |-> CurIns.dst,
                            act |-> Top.id])
  /\ SetReg(Ptr(Len(heap) + 1, 0))
  /\ UNCHANGED <<phase, out, exit_code>>

ExecPrintf ==
  /\ Running("call") /\ IsCallOf("printf")
  /\ out' = Append(out, Format(Arg(2).s, Tail(CallArgs)))
  /\ SetReg(IntC(0))
  /\ UNCHANGED <<phase, heap, exit_code>>

ExecExit ==
  /\ Running("call") /\ IsCallOf("exit")
  /\ phase' = "exited"
  /\ exit_code' = Arg(2).n
  /\ UNCHANGED <<heap, stack, out>>

\* a direct call of display or error
ExecCallDirect ==
  /\ Running("call")
  /\ CurIns.args[1].k = "fn"
  /\ gen.funs[CurIns.args[1].n].blocks # <<>>
  /\ stack' = Append(stack, Activation(CurIns.args[1].n, CallArgs, CurIns.dst, 0))
  /\ UNCHANGED <<phase, heap, out, exit_code>>

\* the closure object whose code field the callee was loaded from
DefOf(r) == CHOOSE i \in 1..Len(CurBlock.instrs) : CurBlock.instrs[i].dst = r
CalledClosure ==
  LET ld == CurBlock.instrs[DefOf(CurIns.args[1].n)]
  IN Val(Top, ld.args[1]).n

\* code(captured_frame, arguments_array)
ExecCallIndirect ==
  /\ Running("call")
  /\ CurIns.args[1].k = "reg"
  /\ IF Arg(1).k = "fn"
     THEN /\ stack' = Append(stack, Activation(Arg(1).n, CallArgs, CurIns.dst, CalledClosure))
          /\ UNCHANGED <<phase, heap, out, exit_code>>
     ELSE Stop("ub")

ExecRet ==
  /\ Running("ret")
  /\ IF Len(stack) = 1
     THEN /\ phase' = "returned"
          /\ exit_code' = Arg(1).n
          /\ UNCHANGED <<heap, stack, out>>
     ELSE /\ stack' = [SubSeq(stack, 1, Len(stack) - 1)
                         EXCEPT ![Len(stack) - 1].regs =
                                  IF CurIns.args = <<>> THEN @ ELSE (Top.dst :> Arg(1)) @@ @,
                                ![Len(stack) - 1].pc = @ + 1]
          /\ UNCHANGED <<phase, heap, out, exit_code>>

ExecBr ==
  /\ Running("br")
  /\ Goto(CurIns.tgt[1])
  /\ UNCHANGED <<phase, heap, out, exit_code>>

ExecCondBr ==
  /\ Running("condbr")
  /\ IF Arg(1).k = "int"
     THEN /\ Goto(IF Arg(1).n # 0 THEN CurIns.tgt[1] ELSE CurIns.tgt[2])
          /\ UNCHANGED <<phase, heap, out, exit_code>>
     ELSE Stop("ub")

ExecSwitch ==
  /\ Running("switch")
  /\ IF Arg(1).k = "int"
     THEN /\ Goto(IF \E i \in 1..Len(CurIns.idx) : CurIns.idx[i] = Arg(1).n
                  THEN CurIns.tgt[1 + CHOOSE i \in 1..Len(CurIns.idx) : CurIns.idx[i] = Arg(1).n]
                  ELSE CurIns.tgt[1])
          /\ UNCHANGED <<phase, heap, out, exit_code>>
     ELSE Stop("ub")

ExecPhi ==
  /\ Running("phi")
  /\ SetReg(Arg(CHOOSE i \in 1..Len(CurIns.tgt) : CurIns.tgt[i] = Top.prev))
  /\ UNCHANGED <<phase, heap, out, exit_code>>

ExecBitcast ==
  /\ Running("bitcast")
  /\ SetReg(CASE CurIns.ty = "f64" -> BitsToF64(Arg(1))
              [] CurIns.ty = "i64" -> F64ToBits(Arg(1))
              [] OTHER -> Arg(1))
  /\ UNCHANGED <<phase, heap, out, exit_code>>

ExecGep ==
  /\ Running("gep")
  /\ SetReg(IF Arg(1).k = "ptr" THEN Ptr(Arg(1).n, Arg(1).o + GepOffset(CurIns)) ELSE Uninit)
  /\ UNCHANGED <<phase, heap, out, exit_code>>

ExecLoad ==
  /\ Running("load")
  /\ IF ValidPtr(heap, Arg(1))
     THEN /\ SetReg(ReadMem(heap, Arg(1), CurIns.ty))
          /\ UNCHANGED <<phase, heap, out, exit_code>>
     ELSE Stop("ub")

ExecStore ==
  /\ Running("store")
  /\ IF ValidPtr(heap, Arg(1)) /\ InBounds(heap, Arg(1), Width(Arg(2)))
     THEN /\ heap' = [heap EXCEPT ![Arg(1).n].mem = (Arg(1).o :> Arg(2)) @@ @]
          /\ Advance
          /\ UNCHANGED <<phase, out, exit_code>>
     ELSE Stop("ub")

ExecICmp ==
  /\ Running("icmp")
  /\ IF Arg(1).k = "int" /\ Arg(2).k = "int"
     THEN /\ SetReg(IntC(IF Arg(1).n = Arg(2).n THEN 1 ELSE 0))
          /\ UNCHANGED <<phase, heap, out, exit_code>>
     ELSE Stop("ub")

FOps == {"fadd", "fsub", "fmul", "fdiv", "frem"}
ExecFArith ==
  /\ \E op \in FOps : Running(op)
  /\ IF FArith(CurIns.op, Arg(1), Arg(2)).s = "inexact"
     THEN Stop("unmodelled")
     ELSE /\ SetReg(FArith(CurIns.op, Arg(1), Arg(2)))
          /\ UNCHANGED <<phase, heap, out, exit_code>>

ExecFNeg ==
  /\ Running("fneg")
  /\ IF Arg(1).s = "inexact"
     THEN Stop("unmodelled")
     ELSE /\ SetReg(FNeg(Arg(1)))
          /\ UNCHANGED <<phase, heap, out, exit_code>>

ExecFCmp ==
  /\ Running("fcmp")
  /\ IF {Arg(1).s, Arg(2).s} \cap {"inexact", "tenths"} # {}
     THEN Stop("unmodelled")
     ELSE /\ SetReg(IntC(IF FCmp(CurIns.ty, Arg(1), Arg(2)) THEN 1 ELSE 0))
          /\ UNCHANGED <<phase, heap, out, exit_code>>

\* build_int_cast is LLVMBuildIntCast, a signed cast: i1 1 becomes -1
ExecIntCast ==
  /\ Running("intcast")
  /\ SetReg(IntC(-Arg(1).n))
  /\ UNCHANGED <<phase, heap, out, exit_code>>

ExecTrunc ==
  /\ Running("trunc")
  /\ IF Arg(1).k = "uninit"
     THEN Stop("ub")
     ELSE /\ SetReg(IntC(LowBit(Arg(1))))
          /\ UNCHANGED <<phase, heap, out, exit_code>>

ExecNot ==
  /\ Running("not")
  /\ IF Arg(1).k = "int"
     THEN /\ SetReg(IntC(BitNot(Arg(1).n)))
          /\ UNCHANGED <<phase, heap, out, exit_code>>
     ELSE Stop("unmodelled")

ExecAndOr ==
  /\ \E op \in {"and", "or"} : Running(op)
  /\ IF Arg(1).k = "int" /\ Arg(2).k = "int"
     THEN /\ SetReg(IntC(IF CurIns.op = "and" THEN BitAnd(Arg(1).n, Arg(2).n)
                         ELSE BitOr(Arg(1).n, Arg(2).n)))
          /\ UNCHANGED <<phase, heap, out, exit_code>>
     ELSE Stop("unmodelled")

Next ==
  \/ Compile
  \/ Start
  \/ ExecMalloc
  \/ ExecPrintf
  \/ ExecExit
  \/ ExecCallDirect
  \/ ExecCallIndirect
  \/ ExecRet
  \/ ExecBr
  \/ ExecCondBr
  \/ ExecSwitch
  \/ ExecPhi
  \/ ExecBitcast
  \/ ExecGep
  \/ ExecLoad
  \/ ExecStore
  \/ ExecICmp
  \/ ExecFArith
  \/ ExecFNeg
  \/ ExecFCmp
  \/ ExecIntCast
  \/ ExecTrunc
  \/ ExecNot
  \/ ExecAndOr

Spec == Init /\ [][Next]_vars

(***************************************************************************)
(* Properties.                                                             *)
(***************************************************************************)
LogEvents(kind) == {gen.log[i] : i \in {j \in 1..Len(gen.log) : gen.log[j].ev = kind}}
EnvOf(ptr) == CHOOSE e \in LogEvents("env") : e.ptr = ptr
\* byte offset of the captured_frame field of a closure record
CapturedFrameOffset == GepOffset([ty |-> "closure", idx |-> <<0, 1>>])
\* the frame the prologue of activation a allocates: the first instruction
\* of f.entry is its malloc
EntryFrame(a) == gen.funs[a.fn].blocks[1].instrs[1].dst
HasStaticLink(a) ==
  /\ a.clo # 0
  /\ EntryFrame(a) \in DOMAIN a.regs
  /\ 0 \in DOMAIN heap[a.regs[EntryFrame(a)].n].mem
StaticLink(a) == heap[a.regs[EntryFrame(a)].n].mem[0]

\* C1: for every call of a closure, slot 0 of the frame the callee's prologue
\* allocates equals the captured_frame field of the closure record called, and
\* that field is the frame of the scope enclosing the literal, allocated by the
\* activation that built the literal (the frame that was current there).
C1_StaticLinkIsCapturedFrame ==
  \A i \in 1..Len(stack) :
    HasStaticLink(stack[i]) =>
      LET a == stack[i]
          rec == heap[a.clo]
          ce == CHOOSE e \in LogEvents("closure") : e.fn = a.fn
      IN /\ rec.site = ce.site
         /\ CapturedFrameOffset \in DOMAIN rec.mem
         /\ StaticLink(a) = rec.mem[CapturedFrameOffset]
         /\ ValidPtr(heap, StaticLink(a))
         /\ StaticLink(a).o = 0
         /\ heap[StaticLink(a).n].site = EnvOf(ce.env).site
         /\ heap[StaticLink(a).n].act = rec.act

\* C1 witness: a closure was called from an activation none of whose frames is
\* the captured frame, and the callee has stored its static link.
C1_CalledFromAnotherFrame ==
  \E i \in 2..Len(stack) :
    /\ HasStaticLink(stack[i])
    /\ ValidPtr(heap, StaticLink(stack[i]))
    /\ heap[StaticLink(stack[i]).n].act # stack[i - 1].id

\* the frame reached from object obj by `jumps` loads through slot 0
RECURSIVE Chase(_, _)
Chase(obj, jumps) ==
  IF jumps = 0 THEN obj
  ELSE IF obj \notin 1..Len(heap) \/ 0 \notin DOMAIN heap[obj].mem THEN 0
  ELSE Chase(heap[obj].mem[0].n, jumps - 1)

\* the identifier read whose final load has just been executed, if any
JustRead ==
  IF phase = "running" /\ Top.pc > 1 /\ Top.pc - 1 <= Len(CurBlock.instrs)
  THEN {e \in LogEvents("read") :
          /\ CurBlock.instrs[Top.pc - 1].op = "load"
          /\ CurBlock.instrs[Top.pc - 1].dst = e.load
          /\ e.load \in DOMAIN Top.regs}
  ELSE {}
ReadCell == Val(Top, CurBlock.instrs[Top.pc - 1].args[1])

\* C2: every identifier read loads from the frame that `jumps` loads through
\* slot 0 reach from the current frame; that frame was allocated for the scope
\* declaring the name; the cell is its slot `slot`, and the value read is the
\* one last stored there.  (x => y => x + y)(10)(32) displays 42.000000, and a
\* chain of n curried arrows applied to 1..n displays their sum.
C2_ChainsAligned ==
  /\ \A e \in JustRead :
       /\ ValidPtr(heap, ReadCell)
       /\ ReadCell.n = Chase(Top.regs[e.cur].n, e.jumps)
       /\ heap[ReadCell.n].site = EnvOf(e.env).site
       /\ ReadCell.o = e.slot * PtrBytes
       /\ Top.regs[e.load] = IF ReadCell.o \in DOMAIN heap[ReadCell.n].mem
                             THEN heap[ReadCell.n].mem[ReadCell.o] ELSE Uninit
  /\ (prog = Scenario4 /\ phase = "returned") => out[1] = "42.000000\n"
  /\ \A n \in 1..MaxChain :
       (prog = Chain(n) /\ phase = "returned") =>
          out[1] = FormatLf(F64((n * (n + 1)) \div 2))

\* C2 witness: a read that went up two frames or more has been executed.
C2_DeepRead == \E e \in JustRead : e.jumps >= 2 /\ Top.regs[e.load].k = "ptr"

ForwardPrograms ==
  {ForwardFn, ForwardVar, ForwardInBlock, ForwardInFn} \cup {Scenario3(k) : k \in 0..MaxFact}

\* C3: when a statement of a statement list is lowered, the environment of the
\* list has been created and already holds a slot for every declaration of the
\* list; programs whose function or arrow literal names a later declaration
\* (or the function itself) compile.
C3_Hoisted ==
  /\ \A j \in 1..Len(gen.log) :
       gen.log[j].ev = "stmt" =>
         \E i \in 1..(j - 1) :
            /\ gen.log[i].ev = "env"
            /\ gen.log[i].ptr = gen.log[j].env
            /\ gen.log[j].decls \subseteq gen.log[i].names
  /\ (phase # "input" /\ prog \in ForwardPrograms) => result = "ok"

\* C3 witness: an arrow that names a constant declared after it was compiled,
\* called, and read the constant.
C3_ForwardReferenceResolved ==
  prog = ForwardVar /\ phase = "returned" /\ out[1] = "4.000000\n"

\* C4: when generation finishes without error, every basic block of every
\* emitted function has exactly one terminator, as its last instruction.
C4_OneTerminatorPerBlock ==
  (phase # "input" /\ gen.status = "ok") =>
     \A f \in 1..Len(gen.funs) : \A k \in 1..Len(gen.funs[f].blocks) :
        WellTerminated(gen.funs[f].blocks[k])

\* C5: an input the lowering rejects makes compile return an error; it does
\* not crash.
C5_ErrorsAreReturned ==
  (phase # "input" /\ prog \in ErrPrograms) => result = "err"

\* C6: a lookup of a name no scope declares returns an error, in every
\* environment.
C6_LookupReturnsError == \A e \in LogEvents("lookup") : e.status = "err"

\* C7: the empty program compiles, and its main displays undefined and
\* returns 0.
C7_EmptyProgramCompiles ==
  /\ (phase # "input" /\ prog = Empty) => result = "ok"
  /\ (phase = "returned" /\ prog = Empty) => out = <<"undefined\n">> /\ exit_code = 0

\* C8 (as amended): the module compiled from display(1 + 2); writes 3.000000
\* and a newline, and then, main displaying the value of its last statement,
\* undefined and a newline.
C8_DisplaySumThenUndefined ==
  (prog = Scenario1 /\ phase = "returned") =>
     out = <<"3.000000\n", "undefined\n">> /\ exit_code = 0

\* C8 witness: the module compiled from display(1 + 2); has run to its end.
C8_Scenario1Returned == prog = Scenario1 /\ phase = "returned" /\ Len(out) = 2

\* C8 as stated: the run writes the one record 3.000000 and nothing else.
C8_OnlyTheSum == (prog = Scenario1 /\ phase = "returned") => out = <<"3.000000\n">>

\* the display call main ends with, and what the statements left behind
FinalDisplay == InsertBlock(gen).instrs[Len(InsertBlock(gen).instrs) - 1]
Done(i) == CHOOSE e \in LogEvents("done") : e.i = i
IsExprStmt(i) == prog.body[i].type = "ExpressionStatement"

\* C9 (as amended): main ends with one call of display; its operand is the
\* value of the program's last statement when that is an expression statement
\* and a fresh undefined box when it is of any other kind; the values of the
\* other expression statements are not displayed.
C9_DisplaysLastStatement ==
  /\ (phase # "input" /\ gen.status = "ok") =>
        /\ FinalDisplay.op = "call"
        /\ FinalDisplay.args[1] = FnC(get_function(gen, "display"))
        /\ IF IsExprStmt(Len(prog.body))
           THEN FinalDisplay.args[2] = Done(Len(prog.body)).val
           ELSE /\ FinalDisplay.args[2].k = "reg"
                /\ FinalDisplay.args[2].n > Done(Len(prog.body)).nreg
  /\ (prog = LastIsDecl /\ phase = "returned") => out = <<"undefined\n">>
  /\ (prog = LastIsExpr /\ phase = "returned") => out = <<"2.000000\n">>
  /\ (prog = TwoExprs /\ phase = "returned") => out = <<"2.000000\n">>

\* C9 witness: 1; const x = 2; has run to its end.
C9_DeclarationLastReturned == prog = LastIsDecl /\ phase = "returned" /\ Len(out) = 1

\* C9 as stated: the operand is the value of the last expression statement
\* of the program, whatever statement comes last.
C9_DisplaysLastExpressionStatement ==
  (phase # "input" /\ gen.status = "ok") =>
     \A i \in 1..Len(prog.body) :
        (IsExprStmt(i) /\ \A j \in (i + 1)..Len(prog.body) : ~IsExprStmt(j)) =>
           FinalDisplay.args[2] = Done(i).val

\* C10: an if statement without an else branch (alternate absent, or null)
\* compiles, and the function of scenario 6 returns 7.
C10_IfWithoutElse ==
  /\ (phase # "input" /\ prog \in {Scenario6, Scenario6Null}) => result = "ok"
  /\ (phase = "returned" /\ prog \in {Scenario6, Scenario6Null}) => out[1] = "7.000000\n"

\* the statements of block statement lists, in the order they were lowered
BlockStmts == {j \in 1..Len(gen.log) : gen.log[j].ev = "stmt" /\ ~gen.log[j].top}

\* C11: in a block's statement list the statements are lowered in order, one
\* after the other, up to and including the first return statement that is
\* directly in the list; no statement after it is lowered (nothing is emitted
\* for it), and when generation succeeds every statement before it is.
C11_BlockStopsAtFirstReturn ==
  /\ \A j \in BlockStmts :
       /\ gen.log[j].i > 1 =>
            \E k \in 1..(j - 1) :
               /\ k \in BlockStmts
               /\ gen.log[k].env = gen.log[j].env
               /\ gen.log[k].i = gen.log[j].i - 1
               /\ gen.log[k].type # "ReturnStatement"
       /\ (gen.status = "ok" /\ gen.log[j].i < gen.log[j].of
             /\ gen.log[j].type # "ReturnStatement") =>
            \E k \in (j + 1)..Len(gen.log) :
               /\ k \in BlockStmts
               /\ gen.log[k].env = gen.log[j].env
               /\ gen.log[k].i = gen.log[j].i + 1
  /\ (phase # "input" /\ prog \in ReturnPrograms) => result = "ok"
  /\ (prog = ReturnEarly /\ phase = "returned") =>
        out = <<"1.000000\n", "2.000000\n", "undefined\n">>
  /\ (prog = ReturnInArm /\ phase = "returned") => out = <<"5.000000\n", "undefined\n">>

\* C11 witness: a function whose body has statements after a return has been
\* called and has returned the value of that return.
C11_ReturnedEarly ==
  /\ prog = ReturnEarly /\ phase = "returned" /\ out[2] = "2.000000\n"
  /\ \E j \in BlockStmts :
        gen.log[j].type = "ReturnStatement" /\ gen.log[j].i < gen.log[j].of

\* the tag an operator expects of both operands, and what display prints of
\* the result for the operands 2 and 2 (true and true for && and ||)
ExpectedTag(o) == IF o \in {"&&", "||"} THEN 1 ELSE 2
ExpectedLine(o) ==
  CASE o \in {"+", "*"} -> "4.000000\n"
    [] o \in {"-", "%"} -> "0.000000\n"
    [] o = "/" -> "1.000000\n"
    [] o \in {"<", ">", "!=="} -> "false\n"
    [] OTHER -> "true\n"
TypeMismatch == "Type mismatch\n"
ErrorBlock(e) == gen.funs[e.fn].blocks[e.error].instrs
\* the activations of the function of operator expression e that have loaded
\* both operand tags
Tagged(e) ==
  {i \in 1..Len(stack) :
     /\ stack[i].fn = e.fn
     /\ {e.left_type, e.right_type} \subseteq DOMAIN stack[i].regs}
TagsExpected(e, a) ==
  /\ a.regs[e.left_type] = IntC(ExpectedTag(e.operator))
  /\ a.regs[e.right_type] = IntC(ExpectedTag(e.operator))

\* C12: the code of a binary or logical expression computes the operator,
\* without a call of error, exactly when both operand tags are the expected
\* one (2, and 1 for && and ||); with any other pair it enters the error block,
\* which is a call of error (Type mismatch, exit 1) followed by a branch to the
\* continuation.  === on two booleans and 1 + true are type errors.
C12_TypecheckGuardsOperator ==
  /\ \A e \in LogEvents("operator") :
       /\ Len(ErrorBlock(e)) = 2
       /\ ErrorBlock(e)[1].op = "call"
       /\ ErrorBlock(e)[1].args = <<FnC(get_function(gen, "error"))>>
       /\ ErrorBlock(e)[2].op = "br"
       /\ ErrorBlock(e)[2].tgt = <<e.valid>>
       /\ gen.funs[e.fn].blocks[e.error].label = "rt.tc.error"
       /\ \E k \in 1..Len(gen.funs[e.fn].blocks[e.valid].instrs) :
             gen.funs[e.fn].blocks[e.valid].instrs[k].dst = e.result
       /\ \A i \in 1..Len(stack) :
            /\ (stack[i].fn = e.fn /\ e.result \in DOMAIN stack[i].regs) =>
                  /\ i \in Tagged(e)
                  /\ TagsExpected(e, stack[i])
                  /\ TypeMismatch \notin {out[j] : j \in 1..Len(out)}
            /\ (stack[i].fn = e.fn /\ stack[i].blk = e.error) =>
                  i \in Tagged(e) /\ ~TagsExpected(e, stack[i])
            /\ (i \in Tagged(e) /\ stack[i].blk = e.valid) => TagsExpected(e, stack[i])
  /\ \A o \in BinaryOperators : \A lt \in Tags : \A rt \in Tags :
       prog = TagPair(o, lt, rt) =>
         /\ phase # "input" => result = "ok"
         /\ phase \notin {"ub", "unmodelled"}
         /\ phase = "returned" =>
              /\ lt = ExpectedTag(o) /\ rt = ExpectedTag(o)
              /\ out = <<ExpectedLine(o), "undefined\n">>
         /\ phase = "exited" =>
              /\ lt # ExpectedTag(o) \/ rt # ExpectedTag(o)
              /\ out[Len(out)] = TypeMismatch
              /\ exit_code = 1
  /\ (prog = Scenario5 /\ phase \in {"returned", "exited"}) =>
        phase = "exited" /\ out = <<TypeMismatch>> /\ exit_code = 1

\* C12 witness: true === true has entered the error block of its type check,
\* printed Type mismatch and exited with code 1.
C12_BooleansComparedWithEq ==
  /\ prog = TagPair("===", TAG_BOOLEAN, TAG_BOOLEAN)
  /\ phase = "exited" /\ out = <<TypeMismatch>> /\ exit_code = 1
  /\ \E e \in LogEvents("operator") : \E i \in Tagged(e) : stack[i].blk = e.error

IsErrorBlock(f, k) == k > 0 /\ gen.funs[f].blocks[k].label \in {"error", "rt.tc.error"}
InError(i) == gen.funs[stack[i].fn].name = "error"
DefinedIn(f, k) == {gen.funs[f].blocks[k].instrs[j].dst : j \in 1..Len(gen.funs[f].blocks[k].instrs)}
\* activation i is at the indirect call of e, or in the activation it made
AtCall(e, i) ==
  /\ stack[i].fn = e.fn
  /\ stack[i].pc <= Len(gen.funs[e.fn].blocks[stack[i].blk].instrs)
  /\ gen.funs[e.fn].blocks[stack[i].blk].instrs[stack[i].pc].dst = e.call
  /\ gen.funs[e.fn].blocks[stack[i].blk].instrs[stack[i].pc].op = "call"

\* C13: a call through a closure whose callee's box has a tag other than 3
\* enters the error block, which calls error: Type mismatch is printed and the
\* process exits with code 1.  The code pointer and the captured frame are
\* read through the closure layout, and the indirect call is made, only in an
\* activation that found tag 3, and no activation continues after a call of
\* error.
C13_CalleeMustBeFunction ==
  /\ \A e \in LogEvents("call") :
       /\ Len(ErrorBlock(e)) = 2
       /\ ErrorBlock(e)[1].op = "call"
       /\ ErrorBlock(e)[1].args = <<FnC(get_function(gen, "error"))>>
       /\ {e.function_ptr, e.fun_env_ptr, e.function_obj, e.fun_env, e.call}
             \subseteq DefinedIn(e.fn, e.next)
       /\ \A i \in 1..Len(stack) :
            stack[i].fn = e.fn =>
              /\ (stack[i].blk = e.error) =>
                    /\ e.lit_type_value \in DOMAIN stack[i].regs
                    /\ stack[i].regs[e.lit_type_value] # IntC(TAG_FUNCTION)
              /\ ({e.function_ptr, e.fun_env_ptr, e.function_obj, e.fun_env, e.call}
                     \cap DOMAIN stack[i].regs # {}
                   \/ (AtCall(e, i) /\ i < Len(stack))) =>
                    /\ e.lit_type_value \in DOMAIN stack[i].regs
                    /\ stack[i].regs[e.lit_type_value] = IntC(TAG_FUNCTION)
                    /\ stack[i].prev # e.error
  /\ \A i \in 1..Len(stack) :
       /\ ~IsErrorBlock(stack[i].fn, stack[i].prev)
       /\ IsErrorBlock(stack[i].fn, stack[i].blk) => stack[i].pc = 1
       /\ InError(i) => i = Len(stack) /\ stack[i].pc <= 2
  /\ phase = "exited" => InError(Len(stack)) /\ out[Len(out)] = TypeMismatch /\ exit_code = 1
  /\ \A tag \in Tags :
       prog = CallOf(tag) =>
         /\ phase # "input" => result = "ok"
         /\ phase \notin {"ub", "unmodelled"}
         /\ phase = "returned" => tag = TAG_FUNCTION /\ out = <<"0.000000\n", "undefined\n">>
         /\ phase = "exited" => tag # TAG_FUNCTION
  /\ (prog = NotAFunction /\ phase \in {"returned", "exited", "ub", "unmodelled"}) =>
        phase = "exited" /\ out = <<TypeMismatch>>

\* C13 witness: const x = 1; x(); has entered the error block of the call,
\* printed Type mismatch and exited with code 1.
C13_NumberCalled ==
  /\ prog = NotAFunction /\ phase = "exited" /\ out = <<TypeMismatch>> /\ exit_code = 1
  /\ \E e \in LogEvents("call") : \E i \in 1..Len(stack) :
        stack[i].fn = e.fn /\ stack[i].blk = e.error

\* the instruction of function f with result r
InsOf(f, r) ==
  LET k == CHOOSE k \in 1..Len(gen.funs[f].blocks) : r \in DefinedIn(f, k)
      j == CHOOSE j \in 1..Len(gen.funs[f].blocks[k].instrs) :
              gen.funs[f].blocks[k].instrs[j].dst = r
  IN gen.funs[f].blocks[k].instrs[j]
IsMalloc(ins) == ins.op = "call" /\ ins.args[1] = FnC(get_function(gen, "malloc"))
DisplayCalls ==
  IF prog = DisplayFn THEN 2 ELSE 1

\* C14: a call whose callee node is the identifier display is a direct call
\* of the runtime helper display and yields a box allocated after the call
\* and tagged undefined; the name is not looked up, also when a constant, a
\* function or a parameter named display is in scope.
C14_DisplayIsNotLookedUp ==
  /\ \A e \in LogEvents("display") :
       /\ InsOf(e.fn, e.call).op = "call"
       /\ InsOf(e.fn, e.call).args[1] = FnC(get_function(gen, "display"))
       /\ e.mem > e.call
       /\ IsMalloc(InsOf(e.fn, e.mem))
       /\ InsOf(e.fn, e.val.n).op = "bitcast"
       /\ InsOf(e.fn, e.val.n).args = <<Reg(e.mem)>>
       /\ \A i \in 1..Len(stack) :
            (stack[i].fn = e.fn /\ e.val.n \in DOMAIN stack[i].regs
               /\ stack[i].regs[e.val.n].n \in 1..Len(heap)
               /\ {0, 8} \subseteq DOMAIN heap[stack[i].regs[e.val.n].n].mem) =>
              /\ heap[stack[i].regs[e.val.n].n].mem[0] = IntC(TAG_UNDEFINED)
              /\ heap[stack[i].regs[e.val.n].n].site = e.mem
       /\ \A i \in 1..(Len(stack) - 1) :
            (stack[i].fn = e.fn /\ stack[i].blk = e.blk /\ e.call \notin DOMAIN stack[i].regs
               /\ stack[i].pc <= Len(gen.funs[e.fn].blocks[e.blk].instrs)
               /\ gen.funs[e.fn].blocks[e.blk].instrs[stack[i].pc].dst = e.call) =>
              /\ stack[i + 1].fn = get_function(gen, "display")
              /\ stack[i + 1].clo = 0
  /\ (phase # "input" /\ prog \in DisplayPrograms) =>
        /\ result = "ok"
        /\ Cardinality(LogEvents("display")) = DisplayCalls
        /\ \A e \in LogEvents("read") \cup LogEvents("lookup") : e.name # "display"
  /\ (prog = DisplayConst /\ phase = "returned") => out = <<"1.000000\n", "undefined\n">>
  /\ (prog = DisplayFn /\ phase = "returned") =>
        out = <<"2.000000\n", "undefined\n", "undefined\n">>
  /\ (prog = DisplayParam /\ phase = "returned") => out = <<"3.000000\n", "undefined\n">>
  /\ (prog \in DisplayPrograms) => phase \notin {"exited", "ub", "unmodelled"}

\* C14 witness: the body of (display) => display(3), called with 4, has
\* called the helper, which printed 3.000000.
C14_ParameterNamedDisplay ==
  /\ prog = DisplayParam /\ phase = "returned" /\ out[1] = "3.000000\n"
  /\ \E e \in LogEvents("display") : gen.funs[e.fn].name # "main"

LogicalEvents == {e \in LogEvents("operator") : e.operator \in {"&&", "||"}}
Truth(v) == IF v THEN "true\n" ELSE "false\n"

\* C15: && and || do not short-circuit.  In every activation the value of the
\* right operand is computed after that of the left operand, and both before
\* the tags are loaded for the type check and before the operator; the side
\* effects of the right operand, and its type errors, happen also when the
\* left operand decides the result (false && .., true || ..).
C15_NoShortCircuit ==
  /\ \A e \in LogicalEvents :
       /\ e.left.n < e.right.n
       /\ e.right.n < e.left_type
       /\ \A i \in 1..Len(stack) :
            stack[i].fn = e.fn =>
              /\ e.right.n \in DOMAIN stack[i].regs => e.left.n \in DOMAIN stack[i].regs
              /\ ({e.left_type, e.right_type, e.result} \cap DOMAIN stack[i].regs # {}) =>
                    e.right.n \in DOMAIN stack[i].regs
  /\ \A o \in {"&&", "||"} : \A lv \in BOOLEAN : \A rv \in BOOLEAN :
       prog = BothSides(o, Bool(lv), Bool(rv)) =>
         /\ phase \notin {"exited", "ub", "unmodelled"}
         /\ phase = "returned" =>
              out = <<"8.000000\n", "9.000000\n",
                      Truth(IF o = "&&" THEN lv /\ rv ELSE lv \/ rv), "undefined\n">>
  /\ \A o \in {"&&", "||"} :
       /\ (prog = BothSides(o, Bool(o = "||"), Num(1))
             /\ phase \in {"returned", "exited", "ub", "unmodelled"}) =>
            phase = "exited" /\ out = <<"8.000000\n", "9.000000\n", TypeMismatch>>
       /\ (prog = RightFails(o) /\ phase \in {"returned", "exited", "ub", "unmodelled"}) =>
            phase = "exited" /\ out = <<TypeMismatch>>
       /\ (prog = RightFails(o) /\ phase # "input") => LogicalEvents # {} /\ \A e \in LogicalEvents :
            \A i \in 1..Len(stack) : stack[i].fn = e.fn => e.right.n \notin DOMAIN stack[i].regs
  /\ (phase # "input" /\ prog \in LogicalPrograms) => result = "ok"

\* C15 witness: in display(g() && f()) with g returning false, f has been
\* called after g and the result false has been displayed.
C15_RightEvaluatedAfterFalse ==
  /\ prog = BothSides("&&", Bool(FALSE), Bool(TRUE))
  /\ phase = "returned"
  /\ out = <<"8.000000\n", "9.000000\n", "false\n", "undefined\n">>

NotEvents == {e \in LogEvents("unary") : e.operator = "!"}
\* the truth value of the k-th of Booleans
TruthOf(k) == k \in {1, 4, 5}
Box(a, r) == heap[a.regs[r].n].mem

\* C16: ! on a box with tag 1 yields a new box with tag 1 whose payload is the
\* bitwise complement of the operand's payload (the two add up to -1, all
\* bits set), so the low bit of the result is the negation of the operand's
\* low bit, whatever the payload; with any other tag error is called.
\* const x = true; display(!x); prints false.
C16_NotComplementsPayload ==
  /\ \A e \in NotEvents : \A i \in 1..Len(stack) :
       stack[i].fn = e.fn =>
         /\ e.result \in DOMAIN stack[i].regs =>
              /\ stack[i].regs[e.obj_type] = IntC(TAG_BOOLEAN)
              /\ stack[i].regs[e.obj_value].k = "int"
              /\ stack[i].regs[e.result].k = "int"
              /\ stack[i].regs[e.result].n + stack[i].regs[e.obj_value].n = -1
              /\ stack[i].regs[e.result].n % 2 = 1 - (stack[i].regs[e.obj_value].n % 2)
         /\ stack[i].blk = e.error => stack[i].regs[e.obj_type] # IntC(TAG_BOOLEAN)
         /\ (e.box \in DOMAIN stack[i].regs /\ {0, 8} \subseteq DOMAIN Box(stack[i], e.box)) =>
              /\ Box(stack[i], e.box)[0] = IntC(TAG_BOOLEAN)
              /\ Box(stack[i], e.box)[8] = stack[i].regs[e.result]
              /\ heap[stack[i].regs[e.box].n].site = e.mem
              /\ stack[i].regs[e.box].n # Val(stack[i], e.argument).n
  /\ \A k \in DOMAIN Booleans :
       prog = NotOf(Booleans[k]) =>
         /\ phase \notin {"exited", "ub", "unmodelled"}
         /\ phase = "returned" => out = <<Truth(~TruthOf(k)), "undefined\n">>
  /\ \A tag \in Tags \ {TAG_BOOLEAN} :
       (prog = NotOf(Operand(tag)) /\ phase \in {"returned", "exited", "ub", "unmodelled"}) =>
          phase = "exited" /\ out[Len(out)] = TypeMismatch /\ exit_code = 1
  /\ (prog = Scenario2 /\ phase \in {"returned", "exited", "ub", "unmodelled"}) =>
        phase = "returned" /\ out = <<"false\n", "undefined\n">>
  /\ (phase # "input" /\ prog \in NotPrograms) => result = "ok"

\* C16 witness: !(!true) has complemented the payload -2, whose low bit is 0,
\* and true has been displayed.
C16_ComplementedMinusTwo ==
  /\ prog = NotOf(Booleans[3])
  /\ phase = "returned" /\ out[1] = "true\n"
  /\ \E e \in NotEvents :
        /\ stack[1].regs[e.obj_value] = IntC(-2)
        /\ stack[1].regs[e.result] = IntC(1)

\* the block of function f that defines register r, and its instructions
BlockOf(f, r) == CHOOSE k \in 1..Len(gen.funs[f].blocks) : r \in DefinedIn(f, k)
TestBlock(e) == gen.funs[e.fn].blocks[BlockOf(e.fn, e.as_i1)].instrs
\* the payload word of the box the test of e evaluated to in activation a
TestPayload(e, a) == heap[Val(a, e.test).n].mem[Val(a, e.test).o + 8]
\* the low bit of the payload of the k-th of Tests
TestBit(k) == k \in {1, 3, 6}
Arm(k) == IF TestBit(k) THEN "1.000000\n" ELSE "2.000000\n"
Before(k) == IF k = 9 THEN <<"0.000000\n">> ELSE <<>>

\* C17: the test of an if statement and of a ternary expression is not
\* tag-checked: its code ends with the address of the payload, its load, the
\* truncation to one bit and the conditional branch to the two arms, with
\* no comparison and no error block; the true arm is entered exactly when the
\* low bit of the payload word of the test's box is 1, whatever the tag, and
\* a test that is not a boolean compiles and runs to the end.
C17_TestIsNotTagChecked ==
  /\ \A e \in LogEvents("test") :
       LET ins == TestBlock(e)
           n == Len(ins)
       IN /\ n >= 4
          /\ ins[n].op = "condbr" /\ ins[n].args = <<Reg(e.as_i1)>>
          /\ ins[n].tgt = <<e.consequent_block, e.alternate_block>>
          /\ ins[n - 1].op = "trunc" /\ ins[n - 1].dst = e.as_i1
          /\ ins[n - 1].args = <<Reg(e.value)>>
          /\ ins[n - 2].op = "load" /\ ins[n - 2].dst = e.value
          /\ ins[n - 2].args = <<Reg(ins[n - 3].dst)>>
          /\ ins[n - 3].op = "gep" /\ ins[n - 3].args = <<e.test>>
          /\ ins[n - 3].idx = <<0, 1>>
          /\ e.alternate_block = e.consequent_block + 1
          /\ e.end_block = e.consequent_block + 2
          /\ \A k \in {e.consequent_block, e.alternate_block, e.end_block} :
                ~IsErrorBlock(e.fn, k)
          /\ \A i \in 1..Len(stack) :
               (stack[i].fn = e.fn
                  /\ stack[i].blk \in {e.consequent_block, e.alternate_block}
                  /\ stack[i].pc = 1) =>
                 /\ stack[i].prev = BlockOf(e.fn, e.as_i1)
                 /\ (stack[i].blk = e.consequent_block)
                       <=> (LowBit(TestPayload(e, stack[i])) = 1)
  /\ \A k \in DOMAIN Tests :
       /\ prog = IfOf(Tests[k]) =>
            /\ phase \notin {"exited", "ub", "unmodelled"}
            /\ phase = "returned" => out = Before(k) \o <<Arm(k), "undefined\n">>
       /\ prog = TernaryOf(Tests[k]) =>
            /\ phase \notin {"exited", "ub", "unmodelled"}
            /\ phase = "returned" => out = Before(k) \o <<Arm(k), "undefined\n">>
  /\ (phase # "input" /\ prog \in TestPrograms) => result = "ok"

\* C17 witness: if (0.3) .. has taken the true arm on the number 0.3, whose
\* payload word is odd.
C17_OddNumberTakesTrueArm ==
  /\ prog = IfOf(Tests[6])
  /\ phase = "returned" /\ out[1] = "1.000000\n"
  /\ \E e \in LogEvents("test") : heap[Val(stack[1], e.test).n].mem[0] = IntC(TAG_NUMBER)

\* the instruction a value comes from, through the pointer casts
RECURSIVE Origin(_, _)
Origin(f, r) ==
  IF InsOf(f, r).op = "bitcast" /\ InsOf(f, r).args[1].k = "reg"
  THEN Origin(f, InsOf(f, r).args[1].n)
  ELSE InsOf(f, r)
Allocating ==
  {"Literal", "UnaryExpression", "BinaryExpression", "LogicalExpression",
   "ArrowFunctionExpression"}
\* the value of e is a box allocated by the code of e
OwnBox(e) ==
  /\ IsMalloc(Origin(e.fn, e.val.n))
  /\ Origin(e.fn, e.val.n).args[2] = IntC(BOXED_VALUE_SIZE)
  /\ e.first < Origin(e.fn, e.val.n).dst
  /\ Origin(e.fn, e.val.n).dst <= e.last
\* the activations that hold a pointer as the value of e
Valued(e) ==
  {i \in 1..Len(stack) :
     /\ stack[i].fn = e.fn
     /\ e.val.n \in DOMAIN stack[i].regs
     /\ stack[i].regs[e.val.n].k = "ptr"}
\* the pointer p is in a slot of a frame
HeldBySlot(p) ==
  \E h \in 1..Len(heap) : \E o \in DOMAIN heap[h].mem :
     /\ heap[h].mem[o] = p
     /\ \E en \in LogEvents("env") : en.site = heap[h].site
\* the cell an identifier's value is loaded from, in activation a
CellOf(e, a) == Val(a, Origin(e.fn, e.val.n).args[1])

\* C18 (as amended): the value of a literal, a unary, binary or logical
\* expression, an arrow function and a call of display is a pointer to a box
\* that the expression's own code allocates, one for every evaluation.  The
\* value of an identifier is the pointer loaded from its frame slot, that of
\* a ternary expression is the phi of the values of its two arms, and that of
\* a call through a closure is the pointer the callee returns: these are the
\* boxes of other evaluations, not new ones.
C18_ValuesAreBoxesNotAllNew ==
  \A e \in LogEvents("expr") :
    /\ e.val.k = "reg"
    /\ e.type \in Allocating => OwnBox(e)
    /\ e.type = "Identifier" => Origin(e.fn, e.val.n).op = "load" /\ e.val.n = e.last
    /\ e.type = "ConditionalExpression" =>
         /\ Origin(e.fn, e.val.n).op = "phi"
         /\ \A k \in 1..2 : \E arm \in LogEvents("expr") :
               /\ arm.val = Origin(e.fn, e.val.n).args[k]
               /\ e.first < arm.last /\ arm.last < e.last
    /\ e.type = "CallExpression" =>
         \/ OwnBox(e)
         \/ Origin(e.fn, e.val.n).op = "call" /\ Origin(e.fn, e.val.n).args[1].k = "reg"
    /\ \A i \in Valued(e) :
         /\ OwnBox(e) =>
              /\ ValidPtr(heap, stack[i].regs[e.val.n])
              /\ stack[i].regs[e.val.n].o = 0
              /\ heap[stack[i].regs[e.val.n].n].site = Origin(e.fn, e.val.n).dst
              /\ heap[stack[i].regs[e.val.n].n].act = stack[i].id
              /\ \A r \in DOMAIN stack[i].regs :
                    (r <= e.first /\ stack[i].regs[r].k = "ptr") =>
                       stack[i].regs[r].n # stack[i].regs[e.val.n].n
         /\ e.type = "Identifier" =>
              /\ ValidPtr(heap, CellOf(e, stack[i]))
              /\ heap[CellOf(e, stack[i]).n].mem[CellOf(e, stack[i]).o]
                    = stack[i].regs[e.val.n]
              /\ HeldBySlot(stack[i].regs[e.val.n])

\* C18 witness: in const x = true; display(!x); the read of x has yielded the
\* pointer its frame slot holds, the box the literal true allocated.
C18_IdentifierYieldsSlotPointer ==
  /\ prog = Scenario2
  /\ \E e \in LogEvents("expr") : \E lit \in LogEvents("expr") :
        /\ e.type = "Identifier" /\ lit.type = "Literal"
        /\ \E i \in Valued(e) :
              /\ i \in Valued(lit)
              /\ stack[i].regs[e.val.n] = stack[i].regs[lit.val.n]
              /\ HeldBySlot(stack[i].regs[e.val.n])

\* C18 as stated: the value of every expression is a box allocated by the
\* expression's own code, and no frame slot holds the pointer when the
\* expression yields it.
C18_EveryValueIsNew ==
  \A e \in LogEvents("expr") :
    /\ OwnBox(e)
    /\ (phase = "running" /\ Top.pc > 1 /\ Top.pc - 1 <= Len(CurBlock.instrs)
          /\ Len(stack) \in Valued(e)
          /\ CurBlock.instrs[Top.pc - 1].dst = e.val.n) =>
         ~HeldBySlot(Top.regs[e.val.n])

\* the scope d parent links above the scope ptr (0 when there is none)
RECURSIVE Ancestor(_, _)
Ancestor(ptr, d) ==
  IF d = 0 \/ ptr = 0 THEN ptr ELSE Ancestor(EnvOf(ptr).parent, d - 1)
Declares(ptr, name) == ptr # 0 /\ name \in EnvOf(ptr).names

\* C19: a lookup that succeeds returns (jumps, slot): the scope `jumps` parent
\* links above the current environment declares the name and no scope nearer
\* to the current one does, so that an inner declaration hides the outer ones;
\* slot is the index add_name gave the name in that scope, and the names of
\* a scope have distinct indices from 1 on.
C19_LookupFindsNearestScope ==
  /\ \A r \in LogEvents("resolved") :
       /\ r.jumps \in 0..Len(gen.log)
       /\ Declares(Ancestor(r.cur, r.jumps), r.name)
       /\ \A d \in 0..(r.jumps - 1) : ~Declares(Ancestor(r.cur, d), r.name)
       /\ r.slot = EnvOf(Ancestor(r.cur, r.jumps)).slots[r.name]
  /\ \A en \in LogEvents("env") :
       /\ DOMAIN en.slots = en.names
       /\ \A n \in en.names : en.slots[n] >= 1
       /\ \A n1 \in en.names : \A n2 \in en.names : en.slots[n1] = en.slots[n2] => n1 = n2
  /\ (prog = Shadow /\ phase = "returned") =>
        out = <<"2.000000\n", "1.000000\n", "undefined\n">>
  /\ (prog = ShadowParam /\ phase \in {"returned", "exited", "ub", "unmodelled"}) =>
        /\ phase = "returned"
        /\ out = <<"3.000000\n", "2.000000\n", "1.000000\n", "undefined\n">>

\* C19 witness: a name declared in two scopes of the chain has been resolved
\* from below the inner one, which is one link up or more.
C19_InnerHidesOuter ==
  \E r \in LogEvents("resolved") :
     /\ r.jumps >= 1
     /\ \E d \in (r.jumps + 1)..Len(gen.log) : Declares(Ancestor(r.cur, d), r.name)

\* C20: in a call through a closure the callee is evaluated first, then its
\* tag is checked, and only then the arguments are evaluated: 1(display(2));
\* exits with Type mismatch before display(2) has printed anything, and in
\* g()(f()) the side effects of g come before those of f.
C20_CalleeBeforeArguments ==
  /\ (prog = NumberCalledWithDisplay /\ phase = "exited") => out = <<TypeMismatch>>
  /\ (prog = CalleeAndArgument /\ phase = "returned") =>
        out = <<"8.000000\n", "9.000000\n", "3.000000\n", "undefined\n">>

\* d: the declarations directly in the statement list of the scope of en
DirectDecls(en) ==
  Cardinality({i \in DOMAIN en.kinds :
                 en.kinds[i] \in {"VariableDeclaration", "FunctionDeclaration"}})
FrameBytes(en) == (DirectDecls(en) + en.p + 1) * 8

\* C21: the allocation of every frame requests (d + p + 1) * 8 bytes, d the
\* number of variable and function declarations directly in the statement
\* list of the scope and p the number of parameters (0 for the top level and
\* for a block); every slot index of the scope's environment, and every slot
\* a lookup returns for it, is in 1..d+p.
C21_FrameSize ==
  /\ \A en \in LogEvents("env") :
       /\ \E f \in 1..Len(gen.funs) : \E k \in 1..Len(gen.funs[f].blocks) :
             /\ en.site \in DefinedIn(f, k)
             /\ IsMalloc(InsOf(f, en.site))
             /\ InsOf(f, en.site).args[2] = IntC(FrameBytes(en))
       /\ \A n \in en.names : en.slots[n] \in 1..(DirectDecls(en) + en.p)
       /\ \A h \in 1..Len(heap) : heap[h].site = en.site => heap[h].size = FrameBytes(en)
  /\ \A r \in LogEvents("resolved") :
       r.slot \in 1..(DirectDecls(EnvOf(Ancestor(r.cur, r.jumps)))
                        + EnvOf(Ancestor(r.cur, r.jumps)).p)
  /\ (prog = DeclsEverywhere /\ phase \in {"returned", "exited", "ub", "unmodelled"}) =>
        /\ phase = "returned"
        /\ out = <<"5.000000\n", "5.000000\n", "7.000000\n", "undefined\n">>

\* C21 witness: the frame of a function with two parameters, one declaration
\* of its own and one in a nested block has been allocated with 32 bytes.
C21_FunctionFrameAllocated ==
  \E en \in LogEvents("env") : \E h \in 1..Len(heap) :
     /\ heap[h].site = en.site
     /\ en.p = 2 /\ DirectDecls(en) = 1 /\ Len(en.kinds) = 3
     /\ heap[h].size = 32

FnStart(fun) == CHOOSE s \in LogEvents("fn_start") : s.fn = fun
\* the stores of block k of function f, as pairs <<address, value>>
StoresOf(f, k) ==
  {<<gen.funs[f].blocks[k].instrs[j].args[1], gen.funs[f].blocks[k].instrs[j].args[2]>> :
     j \in {i \in 1..Len(gen.funs[f].blocks[k].instrs) :
              gen.funs[f].blocks[k].instrs[i].op = "store"}}
\* the address of field i of the closure record allocated at mem
FieldOf(f, k, mem, i) ==
  {gen.funs[f].blocks[k].instrs[j].dst :
     j \in {n \in 1..Len(gen.funs[f].blocks[k].instrs) :
              /\ gen.funs[f].blocks[k].instrs[n].op = "gep"
              /\ gen.funs[f].blocks[k].instrs[n].ty = "closure"
              /\ gen.funs[f].blocks[k].instrs[n].idx = <<0, i>>
              /\ gen.funs[f].blocks[k].instrs[n].args[1].k = "reg"
              /\ Origin(f, gen.funs[f].blocks[k].instrs[n].args[1].n).dst = mem}}
Stored(f, k, mem, i, v) == \E a \in FieldOf(f, k, mem, i) : <<Reg(a), v>> \in StoresOf(f, k)

\* C22: the lowering of a function declaration or of an arrow function, at
\* any depth, ends with the cursor at the block it started in, which is a
\* block of the parent function; the closure record is allocated and written
\* in that block: tag 3, the frame pointer of the parent environment and the
\* function just emitted; no instruction of it is in a block of the new
\* function.
C22_ClosureBuiltAtResumePoint ==
  /\ \A e \in LogEvents("fn_end") :
       /\ e.cur = FnStart(e.fn).cur
       /\ e.cur[1] # e.fn
       /\ e.mem \in DefinedIn(e.cur[1], e.cur[2])
       /\ IsMalloc(InsOf(e.cur[1], e.mem))
       /\ e.val.n \in DefinedIn(e.cur[1], e.cur[2])
       /\ Origin(e.cur[1], e.val.n).dst = e.mem
       /\ Stored(e.cur[1], e.cur[2], e.mem, 0, IntC(TAG_FUNCTION))
       /\ Stored(e.cur[1], e.cur[2], e.mem, 1, e.frame)
       /\ Stored(e.cur[1], e.cur[2], e.mem, 2, FnC(e.fn))
       /\ e.frame.k = "reg" /\ \E k \in 1..Len(gen.funs[e.cur[1]].blocks) :
             e.frame.n \in DefinedIn(e.cur[1], k)
       /\ \A k \in 1..Len(gen.funs[e.fn].blocks) :
             \A s \in StoresOf(e.fn, k) : s[2] # FnC(e.fn)
       /\ \A h \in 1..Len(heap) :
            (heap[h].site = e.mem /\ DOMAIN heap[h].mem = {0, 8, 8 + PtrBytes}) =>
               /\ heap[h].mem[0] = IntC(TAG_FUNCTION)
               /\ heap[h].mem[8 + PtrBytes] = FnC(e.fn)
               /\ heap[h].mem[8].k = "ptr"
               /\ heap[heap[h].mem[8].n].site = EnvOf(e.frame.n).site
  /\ (phase # "input" /\ gen.status = "ok") =>
        Cardinality(LogEvents("fn_end")) = Cardinality(LogEvents("fn_start"))
  /\ (prog = NestedDecl /\ phase \in {"returned", "exited", "ub", "unmodelled"}) =>
        phase = "returned" /\ out = <<"1.000000\n", "undefined\n">>

\* C22 witness: a function declared in an arm of an if statement of another
\* function: its closure record has been built, at run time, by the code of
\* the arm's block.
C22_NestedClosureBuilt ==
  \E e \in LogEvents("fn_end") : \E h \in 1..Len(heap) :
     /\ gen.funs[e.cur[1]].name # "main"
     /\ e.cur[2] > 1
     /\ heap[h].site = e.mem
     /\ DOMAIN heap[h].mem = {0, 8, 8 + PtrBytes}

Arms(e) == {a \in LogEvents("arm") : a.fn = e.cur[1] /\ a.end_block = e.end_block}
ArmBlock(a) == gen.funs[a.fn].blocks[a.blk].instrs
\* the arm ended on a terminator of its own
OwnTerminator(a) == a.n >= 1 /\ ArmBlock(a)[a.n].op \in {"ret", "br", "condbr", "switch"}

\* C23: when an if statement has been lowered the cursor is at its join
\* block, and for each of the two arms the block in which the arm's emission
\* ended either ends with the terminator the arm wrote, with nothing after it,
\* or has got exactly one more instruction, a branch to the join block.
C23_ArmsBranchToJoin ==
  /\ \A e \in LogEvents("if") :
       /\ e.cur[2] = e.end_block
       /\ Cardinality(Arms(e)) = 2
       /\ \A a \in Arms(e) :
            IF OwnTerminator(a)
            THEN Len(ArmBlock(a)) = a.n
            ELSE /\ Len(ArmBlock(a)) = a.n + 1
                 /\ ArmBlock(a)[a.n + 1].op = "br"
                 /\ ArmBlock(a)[a.n + 1].tgt = <<e.end_block>>
       /\ \A k \in {e.consequent_block, e.alternate_block} :
            \/ \E a \in Arms(e) : a.blk = k
            \/ /\ gen.funs[e.cur[1]].blocks[k].instrs # <<>>
               /\ gen.funs[e.cur[1]].blocks[k].instrs[Len(gen.funs[e.cur[1]].blocks[k].instrs)].op
                     \in {"ret", "br", "condbr", "switch"}
  /\ \A t \in BOOLEAN :
       (prog = IfInArms(t) /\ phase \in {"compiled", "returned", "exited", "ub", "unmodelled"}) =>
          /\ result = "ok"
          /\ phase \in {"compiled", "returned"}
          /\ phase = "returned" =>
               out = IF t THEN <<"2.000000\n", "3.000000\n", "undefined\n">>
                     ELSE <<"4.000000\n", "undefined\n">>

\* C23 witness: an arm that is itself an if statement: its emission ended in
\* the inner join block, not in the arm's first block, and the branch to the
\* outer join block was appended there and has been taken.
C23_BranchPatchedInInnerJoin ==
  /\ prog = IfInArms(TRUE) /\ phase = "returned"
  /\ \E e \in LogEvents("if") : \E a \in Arms(e) :
        /\ a.blk \notin {e.consequent_block, e.alternate_block}
        /\ ~OwnTerminator(a)
        /\ gen.funs[a.fn].blocks[a.blk].label = "if.end"

Terminators == {"ret", "br", "condbr", "switch"}
BodyBlock(e) == gen.funs[e.fn].blocks[e.blk].instrs
\* the instructions appended to the block the body of e ended in
Appended(e) == SubSeq(BodyBlock(e), e.n + 1, Len(BodyBlock(e)))
Finished == phase \in {"compiled", "returned", "exited", "ub", "unmodelled"}

\* C24: in every emitted user function each block holds a terminator and
\* every ret returns one pointer; if the block under the cursor ends with a
\* terminator when the body has been lowered nothing is appended to it, else
\* the code of a new box with tag undefined and a ret of that box are. A ret
\* that executes in a user function returns a pointer. A call of a function
\* with an empty body, or of one whose executed arm does not return, displays
\* undefined; an expression-bodied arrow returns the value of its expression.
\* (The last line of each output is the value of the program's last statement,
\* which main displays.)
C24_EveryPathReturnsABox ==
  /\ \A e \in LogEvents("body") :
       /\ \A k \in 1..Len(gen.funs[e.fn].blocks) :
            /\ \E j \in 1..Len(gen.funs[e.fn].blocks[k].instrs) :
                 gen.funs[e.fn].blocks[k].instrs[j].op \in Terminators
            /\ \A j \in 1..Len(gen.funs[e.fn].blocks[k].instrs) :
                 gen.funs[e.fn].blocks[k].instrs[j].op = "ret" =>
                    /\ Len(gen.funs[e.fn].blocks[k].instrs[j].args) = 1
                    /\ gen.funs[e.fn].blocks[k].instrs[j].ty = "ptr"
       /\ IF e.n >= 1 /\ BodyBlock(e)[e.n].op \in Terminators
          THEN Appended(e) = <<>>
          ELSE /\ Len(Appended(e)) = 7
               /\ IsMalloc(Appended(e)[1])
               /\ Appended(e)[1].args[2] = IntC(BOXED_VALUE_SIZE)
               /\ Appended(e)[5].op = "store" /\ Appended(e)[5].args[2] = IntC(TAG_UNDEFINED)
               /\ Appended(e)[6].op = "store" /\ Appended(e)[6].args[2] = IntC(0)
               /\ Appended(e)[7].op = "ret"
               /\ Origin(e.fn, Appended(e)[7].args[1].n) = Appended(e)[1]
  /\ phase = "running" =>
       \A e \in LogEvents("body") :
          (Top.fn = e.fn /\ Top.pc <= Len(CurBlock.instrs) /\ CurIns.op = "ret") =>
             /\ Arg(1).k = "ptr"
             /\ Arg(1).n \in 1..Len(heap)
  /\ (prog = EmptyBody /\ Finished) =>
        /\ result = "ok"
        /\ phase = "returned" => out = <<"undefined\n", "undefined\n">>
  /\ \A t \in BOOLEAN : (prog = FallsOff(t) /\ Finished) =>
        /\ result = "ok"
        /\ phase = "returned" =>
             out = IF t THEN <<"1.000000\n", "undefined\n", "undefined\n">>
                   ELSE <<"2.000000\n", "undefined\n">>
  /\ (prog = ArrowBodies /\ Finished) =>
        /\ result = "ok"
        /\ phase = "returned" => out = <<"5.000000\n", "undefined\n", "undefined\n">>

\* C24 witness: g(true) ran the arm that only displays, fell through to the
\* join block and returned the undefined box appended there.
C24_FellOffTheEnd ==
  /\ prog = FallsOff(TRUE) /\ phase = "returned"
  /\ out = <<"1.000000\n", "undefined\n", "undefined\n">>
  /\ \E e \in LogEvents("body") :
        /\ gen.funs[e.fn].blocks[e.blk].label = "if.end"
        /\ e.n = 0
        /\ Len(Appended(e)) = 7

\* the frames allocated at run time for the scope of en
FramesOf(en) == {h \in 1..Len(heap) : heap[h].site = en.site}
RootEnv == CHOOSE en \in LogEvents("env") : en.parent = 0
\* the stores of function f through a pointer to the object allocated at site
StoresInto(f, site) ==
  UNION {{a \in StoresOf(f, k) : a[1].k = "reg" /\ Origin(f, a[1].n).dst = site} :
           k \in 1..Len(gen.funs[f].blocks)}

\* C25 as stated: slot 0 of the top-level frame holds null.
C25_RootSlotZeroIsNull ==
  phase \in {"returned", "exited"} =>
     \A h \in FramesOf(RootEnv) : 0 \in DOMAIN heap[h].mem /\ heap[h].mem[0] = NullPtr

\* C25: exactly one scope, the top level, has no parent; the code of main
\* holds no store to slot 0 of its frame, and slot 0 of that frame is never
\* written at run time. Every other frame gets a store to its slot 0, and what
\* slot 0 then holds is a frame of the parent scope.
C25_RootLinkIsNeverWritten ==
  /\ phase # "input" /\ result = "ok" =>
       /\ Cardinality({en \in LogEvents("env") : en.parent = 0}) = 1
       /\ RootEnv.site \in DefinedIn(get_function(gen, "main"), 1)
       /\ \A a \in StoresInto(get_function(gen, "main"), RootEnv.site) :
            InsOf(get_function(gen, "main"), a[1].n).op = "gep"
  /\ \A en \in LogEvents("env") : \A h \in FramesOf(en) :
       IF en.parent = 0
       THEN 0 \notin DOMAIN heap[h].mem
       ELSE /\ phase = "returned" => 0 \in DOMAIN heap[h].mem
            /\ 0 \in DOMAIN heap[h].mem =>
                 /\ ValidPtr(heap, heap[h].mem[0])
                 /\ heap[h].mem[0].o = 0
                 /\ heap[heap[h].mem[0].n].site = EnvOf(en.parent).site

\* C25 witness: the run is over, the top-level frame holds a declaration in
\* slot 1 and nothing in slot 0, and another frame links to it.
C25_RootFrameWithoutLink ==
  /\ phase = "returned"
  /\ \E h \in FramesOf(RootEnv) :
        /\ PtrBytes \in DOMAIN heap[h].mem
        /\ 0 \notin DOMAIN heap[h].mem
        /\ \E g \in 1..Len(heap) :
              0 \in DOMAIN heap[g].mem /\ heap[g].mem[0] = V("ptr", h, 0, "")

\* the first call of add_name with the name of the i-th call
FirstAdded(en, i) == CHOOSE j \in 1..i :
  en.added[j] = en.added[i] /\ \A k \in 1..(j - 1) : en.added[k] # en.added[i]

\* C26 as stated: the i-th add_name of an environment assigns slot i, and the
\* slot lookup returns for a name is the one its first add_name assigned,
\* also when the name is added again.
C26_SlotsAreStable ==
  /\ \A en \in LogEvents("env") : \A i \in 1..Len(en.added) :
       en.slots[en.added[i]] = FirstAdded(en, i)
  /\ \A r \in LogEvents("resolved") :
       \E i \in 1..Len(EnvOf(Ancestor(r.cur, r.jumps)).added) :
          /\ EnvOf(Ancestor(r.cur, r.jumps)).added[i] = r.name
          /\ r.slot = FirstAdded(EnvOf(Ancestor(r.cur, r.jumps)), i)

\* the store just executed, if it wrote into a frame: <<frame, offset, scope>>
JustStoredInFrame ==
  IF phase = "running" /\ Top.pc > 1 /\ Top.pc - 1 <= Len(CurBlock.instrs)
     /\ CurBlock.instrs[Top.pc - 1].op = "store"
     /\ ValidPtr(heap, Val(Top, CurBlock.instrs[Top.pc - 1].args[1]))
  THEN {<<Val(Top, CurBlock.instrs[Top.pc - 1].args[1]).n,
          Val(Top, CurBlock.instrs[Top.pc - 1].args[1]).o, en>> :
          en \in {e \in LogEvents("env") :
                    heap[Val(Top, CurBlock.instrs[Top.pc - 1].args[1]).n].site = e.site}}
  ELSE {}
\* the declaration whose store is the instruction at pc of the top activation
DeclAt(pc) == {d \in LogEvents("decl") : d.fn = Top.fn /\ d.blk = Top.blk /\ d.at = pc}

\* C27: a store into a frame is the store of the static link into slot 0 of
\* a frame with a parent, or one of the p copies of the prologue into slots
\* 1..p of a function frame, or the store of a declaration statement into the
\* slot of its name in the frame of its own scope; when a declaration's store
\* executes, its slot has not been written before; and an identifier read
\* of a slot that has never been written loads garbage, as display(x) before
\* const x = 1 does.
C27_SlotsWrittenByDeclarationsOnly ==
  /\ \A w \in JustStoredInFrame :
       \/ w[2] = 0 /\ w[3].parent # 0
       \/ /\ Top.blk = 1
          /\ \E i \in 1..w[3].p : Top.pc - 1 = 6 + 4 * i /\ w[2] = i * PtrBytes
       \/ \E d \in DeclAt(Top.pc - 1) :
             /\ d.jumps = 0
             /\ d.env = w[3].ptr
             /\ d.name \in w[3].names
             /\ w[3].slots[d.name] = d.slot
             /\ d.slot > w[3].p
             /\ w[2] = d.slot * PtrBytes
  /\ (phase = "running" /\ Top.pc <= Len(CurBlock.instrs)) =>
       \A d \in DeclAt(Top.pc) :
          /\ CurIns.op = "store"
          /\ ValidPtr(heap, Arg(1))
          /\ heap[Arg(1).n].site = EnvOf(d.env).site
          /\ Arg(1).o = d.slot * PtrBytes
          /\ Arg(1).o \notin DOMAIN heap[Arg(1).n].mem
  /\ \A e \in JustRead :
       ValidPtr(heap, ReadCell) =>
          (ReadCell.o \notin DOMAIN heap[ReadCell.n].mem => Top.regs[e.load] = Uninit)
  /\ (prog = ReadBeforeInit /\ Finished /\ phase # "compiled") => phase = "ub" /\ out = <<>>

\* C27 witness: display(x) has loaded the slot of x in the top-level frame
\* before the store of const x = 1, and nothing has been written to the frame.
C27_ReadOfUnwrittenSlot ==
  /\ prog = ReadBeforeInit
  /\ \E e \in JustRead :
        /\ e.name = "x" /\ e.jumps = 0
        /\ Top.regs[e.load] = Uninit
        /\ ReadCell.n \in FramesOf(RootEnv)
        /\ DOMAIN heap[ReadCell.n].mem = {}

\* the stores of function f into the entries of the array allocated at site,
\* as pairs <<index, value>>
EntryStores(f, site) ==
  UNION {{<<InsOf(f, a[1].n).idx, a[2]>> :
            a \in {s \in StoresOf(f, k) :
                     /\ s[1].k = "reg"
                     /\ InsOf(f, s[1].n).op = "gep"
                     /\ InsOf(f, s[1].n).ty = "ptrs"
                     /\ InsOf(f, s[1].n).args[1].k = "reg"
                     /\ Origin(f, InsOf(f, s[1].n).args[1].n).dst = site}} :
           k \in 1..Len(gen.funs[f].blocks)}
\* the activations of user functions, their arguments array, frame and p
Callees == {i \in 1..Len(stack) : stack[i].clo # 0}
ArgsOf(a) == heap[a.params[2].n]
Parameters(a) == (CHOOSE en \in LogEvents("env") : en.site = EntryFrame(a)).p
PrologueDone(a) ==
  /\ EntryFrame(a) \in DOMAIN a.regs
  /\ a.blk # 1 \/ a.pc > 6 + 4 * Parameters(a)
Entries(n) == {(j - 1) * PtrBytes : j \in 1..n}

\* C28: a call with n argument expressions allocates an array of 8 * n bytes
\* and stores argument i in entry i, nothing else; the callee gets that array
\* with exactly its n entries written; once the prologue of a function with p
\* parameters is over, slot j of its frame holds entry j - 1 of the array for
\* j <= n and what a load past the written entries yields for n < j <= p;
\* and calls with n < p, n = p and n > p run to the end without an error.
C28_NoArityCheck ==
  /\ \A g \in LogEvents("args") :
       /\ IsMalloc(InsOf(g.fn, g.array))
       /\ InsOf(g.fn, g.array).args[2] = IntC(Len(g.params) * 8)
       /\ EntryStores(g.fn, g.array) = {<<<<j - 1>>, g.params[j]>> : j \in 1..Len(g.params)}
       /\ Cardinality(EntryStores(g.fn, g.array)) = Len(g.params)
  /\ \A i \in Callees :
       /\ ValidPtr(heap, stack[i].params[2])
       /\ stack[i].params[2].o = 0
       /\ \E g \in LogEvents("args") :
            /\ ArgsOf(stack[i]).site = g.array
            /\ ArgsOf(stack[i]).size = Len(g.params) * 8
            /\ DOMAIN ArgsOf(stack[i]).mem = Entries(Len(g.params))
            /\ \A j \in 1..Len(g.params) : ArgsOf(stack[i]).mem[(j - 1) * PtrBytes].k = "ptr"
       /\ PrologueDone(stack[i]) =>
            \A j \in 1..Parameters(stack[i]) :
               /\ j * PtrBytes \in DOMAIN heap[stack[i].regs[EntryFrame(stack[i])].n].mem
               /\ heap[stack[i].regs[EntryFrame(stack[i])].n].mem[j * PtrBytes]
                    = IF (j - 1) * PtrBytes \in DOMAIN ArgsOf(stack[i]).mem
                      THEN ArgsOf(stack[i]).mem[(j - 1) * PtrBytes]
                      ELSE Uninit
  /\ (prog \in ArityPrograms /\ Finished) =>
        /\ result = "ok"
        /\ phase \in {"compiled", "returned"}
        /\ exit_code \in {-1, 0}
  /\ \A n \in 0..3 : (prog = ArityIgnored(n) /\ phase = "returned") =>
        out = <<"9.000000\n", "undefined\n">>
  /\ \A n \in 2..3 : (prog = ArityUsed(n) /\ phase = "returned") =>
        out = <<"2.000000\n", "undefined\n">>

\* C28 witness: f(a, b) was called with one argument; its prologue is over;
\* slot 1 holds the argument and slot 2 what the load of entry 1 of the
\* 8-byte array, which the caller never wrote, yielded.
C28_FewerArgumentsThanParameters ==
  /\ prog = ArityIgnored(1)
  /\ \E i \in Callees :
        /\ PrologueDone(stack[i])
        /\ Parameters(stack[i]) = 2
        /\ ArgsOf(stack[i]).size = 8
        /\ DOMAIN ArgsOf(stack[i]).mem = {0}
        /\ heap[stack[i].regs[EntryFrame(stack[i])].n].mem[PtrBytes] = ArgsOf(stack[i]).mem[0]
        /\ heap[stack[i].regs[EntryFrame(stack[i])].n].mem[2 * PtrBytes] = Uninit

====
